---- MODULE Spec2Model ----
(***************************************************************************)
(* Protocol normalisation layer of the content generators: the streaming   *)
(* accumulators of BedrockContentGenerator.generateContentStream and       *)
(* OpenAIContentGenerator.generateContentStream, and the non-streaming     *)
(* response translators (convertToGeminiResponse) of both backends.        *)
(*                                                                         *)
(* Text is modelled as a sequence of one-character strings, so that        *)
(* concatenation, splitting and JSON parsing are computed, not assumed.    *)
(***************************************************************************)
EXTENDS Integers, Sequences, FiniteSets, TLC

(***************************************************************************)
(* Bounds of the model.                                                    *)
(***************************************************************************)
\* longest raw event sequence of one streaming call in the free specification
MaxEvents == 4
\* nesting depth of the objects drawn for the round trip of tool arguments
MaxDepth == 1
\* most records one reader.read() of the OpenAI stream delivers
MaxBatch == 2
\* most fragments the serialized arguments of one tool call are split into
MaxFragments == 3
\* most content blocks (Bedrock) or tool calls (OpenAI) of one answer
MaxBlocks == 2
\* most Content entries of the conversation of one request
MaxContents == 3
\* the values Date.now() may return while one request is translated
MaxTicks == 2
\* longest event sequence drawn from the mixed event alphabet
MaxMixed == 3

\* the records of a body, and the units one read delivers at most
MaxRecords == 3

MaxChunk == 4

(***************************************************************************)
(* JSON text and JSON values.                                              *)
(* A value is a number, a string or an object; an object is a function     *)
(* from keys (strings) to values, so equality of values is deep equality.  *)
(***************************************************************************)
Q == "\""

EmptyStr == << >>

JNum(n) == [t |-> "num", n |-> n, s |-> EmptyStr, kv |-> << >>]

JStr(s) == [t |-> "str", n |-> 0, s |-> s, kv |-> << >>]

JObj(kv) == [t |-> "obj", n |-> 0, s |-> EmptyStr, kv |-> kv]

EmptyObject == JObj(<< >>)

\* the value of a part that carries no arguments (a text part)
NoArgs == [t |-> "none", n |-> 0, s |-> EmptyStr, kv |-> << >>]

\* result of a parse step: ok, the value, and the index after it
PFail == [ok |-> FALSE, v |-> NoArgs, next |-> 0]

POk(v, next) == [ok |-> TRUE, v |-> v, next |-> next]

RECURSIVE ParseDigits(_, _, _)
\* the run of digits that starts at s[i]; acc is the value read so far
ParseDigits(s, i, acc) ==
  IF i <= Len(s) /\ s[i] = "1"
  THEN ParseDigits(s, i + 1, 10 * acc + 1)
  ELSE POk(JNum(acc), i)

RECURSIVE ParseChars(_, _, _)
\* the characters of a string literal up to its closing quote; s[i-1] opened it
ParseChars(s, i, acc) ==
  IF i > Len(s) THEN PFail
  ELSE IF s[i] = Q THEN POk(JStr(acc), i + 1)
  ELSE ParseChars(s, i + 1, Append(acc, s[i]))

RECURSIVE ParseValue(_, _)
RECURSIVE ParseMembers(_, _, _)
\* the JSON value that starts at s[i]
ParseValue(s, i) ==
  IF i > Len(s) THEN PFail
  ELSE IF s[i] = "1" THEN ParseDigits(s, i, 0)
  ELSE IF s[i] = Q THEN ParseChars(s, i + 1, EmptyStr)
  ELSE IF s[i] = "{"
       THEN IF i + 1 <= Len(s) /\ s[i + 1] = "}"
            THEN POk(EmptyObject, i + 2)
            ELSE ParseMembers(s, i + 1, << >>)
  ELSE PFail

\* the members of an object from s[i] on: "key":value, then , or }
ParseMembers(s, i, acc) ==
  IF i > Len(s) \/ s[i] # Q THEN PFail
  ELSE LET k == ParseChars(s, i + 1, EmptyStr) IN
       IF ~k.ok \/ k.next > Len(s) \/ s[k.next] # ":" THEN PFail
       ELSE LET v == ParseValue(s, k.next + 1) IN
            IF ~v.ok \/ v.next > Len(s) THEN PFail
            ELSE LET kv == (k.v.s :> v.v) @@ acc IN
                 IF s[v.next] = "}" THEN POk(JObj(kv), v.next + 1)
                 ELSE IF s[v.next] = "," THEN ParseMembers(s, v.next + 1, kv)
                 ELSE PFail

\* JSON.parse: the value of the whole text, or a SyntaxError (ok = FALSE)
JSONParse(s) ==
  LET r == ParseValue(s, 1) IN
  IF r.ok /\ r.next = Len(s) + 1 THEN r ELSE PFail

RECURSIVE Digits(_)
\* decimal digits of a positive number; the numbers of the model (1, 11,
\* ...) are written with the digit 1 only
Digits(n) == IF n < 10 THEN <<"1">> ELSE Append(Digits(n \div 10), "1")

RECURSIVE JSONStringify(_)
RECURSIVE StringifyMembers(_, _)
\* JSON.stringify of a value
JSONStringify(v) ==
  IF v.t = "num" THEN Digits(v.n)
  ELSE IF v.t = "str" THEN <<Q>> \o v.s \o <<Q>>
  ELSE <<"{">> \o StringifyMembers(v.kv, DOMAIN v.kv) \o <<"}">>

\* the members of an object, comma separated, for the keys in ks
StringifyMembers(kv, ks) ==
  IF ks = {} THEN EmptyStr
  ELSE LET k == CHOOSE x \in ks : TRUE
           m == <<Q>> \o k \o <<Q, ":">> \o JSONStringify(kv[k])
       IN IF ks = {k} THEN m
          ELSE m \o <<",">> \o StringifyMembers(kv, ks \ {k})

(***************************************************************************)
(* Unified response fragments (GenerateContentResponse, one candidate).    *)
(***************************************************************************)
TextPart(text) ==
  [kind |-> "text", text |-> text, id |-> EmptyStr, name |-> EmptyStr,
   args |-> NoArgs]

\* id is EmptyStr when the part carries no id (undefined)
FunctionCallPart(id, name, args) ==
  [kind |-> "functionCall", text |-> EmptyStr, id |-> id, name |-> name,
   args |-> args]

IsFunctionCall(part) == part.kind = "functionCall"

IsText(part) == part.kind = "text"

\* a candidate without a finishReason field
NoFinish == "none"

FinishReasons == {"STOP", "MAX_TOKENS", "SAFETY", "OTHER"}

Fragment(parts, finishReason) ==
  [parts |-> parts, finishReason |-> finishReason]

\* JSON null (and undefined) of a finish_reason field
Null == "null"

\* the mapper without its case for tool_calls
mapFinishReasonNoToolCalls(openAIReason) ==
  CASE openAIReason = "stop" -> "STOP"
    [] openAIReason = "length" -> "MAX_TOKENS"
    [] openAIReason = "content_filter" -> "SAFETY"
    [] OTHER -> "OTHER"

mapFinishReason(openAIReason) ==
  CASE openAIReason = "stop" -> "STOP"
    [] openAIReason = "length" -> "MAX_TOKENS"
    [] openAIReason = "content_filter" -> "SAFETY"
    [] openAIReason = "tool_calls" -> "STOP"
    [] OTHER -> "OTHER"

\* choice.finish_reason || 'other'
OrOther(finish_reason) ==
  IF finish_reason = Null THEN "other" ELSE finish_reason

(***************************************************************************)
(* Raw events of the two backends.                                         *)
(***************************************************************************)
\* BedrockStreamChunk; dtype is delta.type or content_block.type.  The
\* message_delta (stop_reason) and message_stop events are one chunk here:
\* the generator reads neither.
BedrockChunk(type, dtype, index, text, input, id, name, stop_reason) ==
  [type |-> type, dtype |-> dtype, index |-> index, text |-> text,
   input |-> input, id |-> id, name |-> name, stop_reason |-> stop_reason]

BTextDelta(text) ==
  BedrockChunk("content_block_delta", "text_delta", 0, text, EmptyStr,
               EmptyStr, EmptyStr, Null)

BToolUseStart(index, id, name) ==
  BedrockChunk("content_block_start", "tool_use", index, EmptyStr, EmptyStr,
               id, name, Null)

BInputJsonDelta(index, input) ==
  BedrockChunk("content_block_delta", "input_json_delta", index, EmptyStr,
               input, EmptyStr, EmptyStr, Null)

BContentBlockStop(index) ==
  BedrockChunk("content_block_stop", "", index, EmptyStr, EmptyStr, EmptyStr,
               EmptyStr, Null)

BMessageStop(stop_reason) ==
  BedrockChunk("message_stop", "", 0, EmptyStr, EmptyStr, EmptyStr, EmptyStr,
               stop_reason)

\* one element of choices[0].delta.tool_calls; a missing id, name or
\* arguments is EmptyStr (the generator tests them for truthiness only)
ToolCallDelta(index, id, name, arguments) ==
  [index |-> index, id |-> id, name |-> name, arguments |-> arguments]

\* one line of the response body: kind "data" holds an OpenAIStreamChunk
\* with choices[0] = {delta: {content, tool_calls}, finish_reason}; kind "bad"
\* is a data line whose payload is not JSON; "done" is data: [DONE];
\* "blank" is an empty line
OpenAILine(kind, content, tool_calls, finish_reason) ==
  [kind |-> kind, content |-> content, tool_calls |-> tool_calls,
   finish_reason |-> finish_reason]

OContent(content, finish_reason) ==
  OpenAILine("data", content, << >>, finish_reason)

OToolCalls(tool_calls) == OpenAILine("data", EmptyStr, tool_calls, Null)

OFinish(finish_reason) == OpenAILine("data", EmptyStr, << >>, finish_reason)

ODone == OpenAILine("done", EmptyStr, << >>, Null)

OBlank == OpenAILine("blank", EmptyStr, << >>, Null)

OBad == OpenAILine("bad", EmptyStr, << >>, Null)

VARIABLES
  backend,               \* "bedrock" or "openai": the generator of this call
                         \* ("none" until createContentGenerator made one)
  mode,                  \* "free": any raw event may come; "scripted": script
  scenario,              \* scripted: the event sequence drawn for this call
  script,                \* scripted: the raw events the transport still holds
  consumed,              \* the raw events the generator has processed
  out,                   \* the fragments yielded to the caller, in order
  pc,                    \* "streaming", "done" (returned) or "failed" (threw)
  cancelled,             \* the caller's abort signal is triggered
  currentToolUse,        \* Bedrock: {id, name} of the open tool_use block
  accumulatedInput,      \* Bedrock: input JSON text accumulated so far
  accumulatedToolCalls,  \* OpenAI: Map index -> call, in insertion order
  accumulatedContent,    \* OpenAI: all content deltas so far
  lines,                 \* OpenAI: lines of the last read not yet processed
  request,               \* generateContent: the options of the request
  backendResponse,       \* generateContent: what the backend answered
  result,                \* the response a call returned, or its error
  op,                    \* "stream", "generate" or "embed": the method called
  configuredUrl,         \* OpenAI: the baseUrl given to the constructor
  baseUrl,               \* OpenAI: this.baseUrl
  fetches,               \* number of transport requests the call has issued
  http,                  \* the transport's answer to the request of the call
  contents,              \* the conversation (Content[]) of the request
  sent,                  \* the messages of the backend request built from it
  config,                \* the ContentGeneratorConfig given to the dispatcher
  backendRequest,        \* the options of the backend request built
  buffer,                \* OpenAI: the text read after the last newline
  pulls,                 \* the next() calls the caller has made on the stream
  released,              \* OpenAI: the calls of reader.releaseLock() so far
  parked                 \* the state of another streaming call of the
                         \* instance, while it is not the one stepping

\* the state of a generateContent or embedContent call, and of the
\* translation of a request
genVars ==
  <<request, backendResponse, result, op, configuredUrl, baseUrl, fetches,
    http, contents, sent, config, backendRequest>>

\* the state of a generateContentStream call
streamVars ==
  <<mode, scenario, script, consumed, out, cancelled, currentToolUse,
    accumulatedInput, accumulatedToolCalls, accumulatedContent, lines,
    buffer, pulls, released, parked>>

\* what an iteration of a generator's loop leaves alone
restVars == <<genVars, buffer, pulls, parked>>

vars == <<backend, pc, streamVars, genVars>>

(***************************************************************************)
(* The raw events the transport may deliver.                               *)
(***************************************************************************)
Texts == {<<"a">>, <<"b">>}

Indices == {0, 1}

ToolId(index) == IF index = 0 THEN <<"c", "0">> ELSE <<"c", "1">>

ToolName(index) == IF index = 0 THEN <<"f">> ELSE <<"g">>

\* the two halves of {"x":1}, and {}
ArgFrags == {<<"{", Q, "x", Q, ":">>, <<"1", "}">>, <<"{", "}">>}

BedrockChunks ==
  {BTextDelta(t) : t \in Texts}
    \cup {BToolUseStart(i, ToolId(i), ToolName(i)) : i \in Indices}
    \cup {BInputJsonDelta(i, f) : i \in Indices, f \in ArgFrags}
    \cup {BContentBlockStop(i) : i \in Indices}
    \cup {BMessageStop("end_turn")}

OpenAILines ==
  {OContent(t, Null) : t \in Texts}
    \cup {OContent(<<"a">>, "stop")}
    \cup {OToolCalls(<<ToolCallDelta(i, ToolId(i), ToolName(i), EmptyStr)>>) :
            i \in Indices}
    \cup {OToolCalls(<<ToolCallDelta(i, EmptyStr, EmptyStr, f)>>) :
            i \in Indices, f \in ArgFrags}
    \cup {OFinish("stop"), OFinish("length"), ODone, OBad}

(***************************************************************************)
(* Event sequences in the vocabulary of the streaming accumulator (text,   *)
(* tool-block open, argument fragment, tool-block close, terminal, end of  *)
(* stream sentinel, undecodable record) and their form on each wire.       *)
(***************************************************************************)
Event(k, index, text) == [k |-> k, index |-> index, text |-> text]

EvText(text) == Event("text", 0, text)

EvOpen(index) == Event("open", index, EmptyStr)

EvFrag(index, text) == Event("frag", index, text)

EvClose(index) == Event("close", index, EmptyStr)

\* the terminal event with the backend's code for a normal stop
EvTerminal == Event("terminal", 0, EmptyStr)

EvDone == Event("done", 0, EmptyStr)

EvGarbage == Event("garbage", 0, EmptyStr)

\* the Bedrock chunks of one event
BedrockWire(ev) ==
  CASE ev.k = "text" -> <<BTextDelta(ev.text)>>
    [] ev.k = "open" ->
         <<BToolUseStart(ev.index, ToolId(ev.index), ToolName(ev.index))>>
    [] ev.k = "frag" -> <<BInputJsonDelta(ev.index, ev.text)>>
    [] ev.k = "close" -> <<BContentBlockStop(ev.index)>>
    [] ev.k = "terminal" -> <<BMessageStop("end_turn")>>
    [] OTHER -> << >>

\* the OpenAI lines of one event; the OpenAI grammar has no block close
OpenAIWire(ev) ==
  CASE ev.k = "text" -> <<OContent(ev.text, Null)>>
    [] ev.k = "open" ->
         <<OToolCalls(<<ToolCallDelta(ev.index, ToolId(ev.index),
                                      ToolName(ev.index), EmptyStr)>>)>>
    [] ev.k = "frag" ->
         <<OToolCalls(<<ToolCallDelta(ev.index, EmptyStr, EmptyStr,
                                      ev.text)>>)>>
    [] ev.k = "terminal" -> <<OFinish("stop")>>
    [] ev.k = "done" -> <<ODone>>
    [] ev.k = "garbage" -> <<OBad>>
    [] OTHER -> << >>

RECURSIVE Wire(_, _)
\* the raw events of an event sequence on the wire of backend b
Wire(b, events) ==
  IF events = << >> THEN << >>
  ELSE (IF b = "bedrock" THEN BedrockWire(Head(events))
        ELSE OpenAIWire(Head(events))) \o Wire(b, Tail(events))

RECURSIVE JValues(_)
\* the JSON values nested at most d deep
JValues(d) ==
  IF d = 0 THEN {JNum(1), JStr(<<"x">>), EmptyObject}
  ELSE JValues(d - 1) \cup {JObj(<<"x">> :> v) : v \in JValues(d - 1)}

\* the objects drawn as tool arguments
RoundTripObjects == {v \in JValues(MaxDepth) : v.t = "obj"}

Min(S) == CHOOSE m \in S : \A n \in S : m <= n

RECURSIVE PiecesFrom(_, _, _)
\* the pieces of s from index start on, cut after each position of cuts
PiecesFrom(s, start, cuts) ==
  IF cuts = {} THEN <<SubSeq(s, start, Len(s))>>
  ELSE <<SubSeq(s, start, Min(cuts))>>
         \o PiecesFrom(s, Min(cuts) + 1, cuts \ {Min(cuts)})

\* every way of splitting s into 1..n non-empty pieces
Splits(s, n) ==
  {PiecesFrom(s, 1, cuts) :
     cuts \in {c \in SUBSET (1..(Len(s) - 1)) : Cardinality(c) < n}}

\* open, the fragments, close, terminal, of the tool block of index 0
RoundTripScript(pieces) ==
  <<EvOpen(0)>> \o [p \in 1..Len(pieces) |-> EvFrag(0, pieces[p])]
    \o <<EvClose(0), EvTerminal>>

RoundTripScripts ==
  UNION {{RoundTripScript(pieces) :
            pieces \in Splits(JSONStringify(obj), MaxFragments)} :
         obj \in RoundTripObjects}

X1First == <<"{", Q, "x", Q, ":">>

X1Second == <<"1", "}">>

\* text, open, first half of {"x":1}, text, second half, close, terminal
InterleavingScript ==
  <<EvText(<<"a">>), EvOpen(0), EvFrag(0, X1First), EvText(<<"b">>),
    EvFrag(0, X1Second), EvClose(0), EvTerminal>>

\* a tool block opened and never closed before the terminal event
UnclosedScript == <<EvOpen(0), EvFrag(0, <<"{", "}">>), EvTerminal>>

\* a tool block opened and never closed before the stream ends
UnclosedAtEndScript == <<EvOpen(0), EvFrag(0, <<"{", "}">>), EvDone>>

\* a tool call whose arguments do not parse, followed by one that is fine
MalformedScript ==
  <<EvOpen(0), EvFrag(0, X1Second), EvClose(0), EvOpen(1),
    EvFrag(1, <<"{", "}">>), EvClose(1), EvTerminal>>

\* two tool blocks open at the same time, their fragments alternating
AlternatingScript ==
  <<EvOpen(0), EvOpen(1), EvFrag(0, X1First), EvFrag(1, <<"{", "}">>),
    EvFrag(0, X1Second), EvClose(0), EvClose(1), EvTerminal>>

\* every sequence of 1..n elements of S
SeqsUpTo(S, n) == UNION {[1..k -> S] : k \in 1..n}

\* every event sequence of at most MaxMixed events of one stream with text
\* deltas, one tool block, an undecodable record and the ways a stream ends
MixedEvents ==
  {EvText(<<"a">>), EvText(<<"b">>), EvOpen(0), EvFrag(0, <<"{", "}">>),
   EvClose(0), EvTerminal, EvDone, EvGarbage}

MixedScripts == SeqsUpTo(MixedEvents, MaxMixed)

\* a record that cannot be decoded between two text deltas
GarbageScript ==
  <<EvText(<<"a">>), EvGarbage, EvText(<<"b">>), EvTerminal, EvDone>>

Scripts ==
  RoundTripScripts
    \cup MixedScripts
    \cup {InterleavingScript, UnclosedScript, UnclosedAtEndScript,
          MalformedScript, AlternatingScript, GarbageScript}

\* the message stop has been processed: the Bedrock stream holds nothing more
MessageStopped ==
  consumed # << >> /\ consumed[Len(consumed)].type = "message_stop"

\* the raw Bedrock events that can come next
BedrockOffered ==
  IF backend # "bedrock" THEN {}
  ELSE IF mode = "scripted"
  THEN IF script # << >> THEN {Head(script)} ELSE {}
  ELSE IF Len(consumed) < MaxEvents /\ ~MessageStopped
       THEN BedrockChunks ELSE {}

\* the batches of lines the next reader.read() can deliver
OpenAIOffered ==
  IF backend # "openai" THEN {}
  ELSE IF mode = "scripted"
  THEN {SubSeq(script, 1, k) : k \in 1..(IF Len(script) < MaxBatch
                                        THEN Len(script) ELSE MaxBatch)}
  ELSE IF mode = "free"
  THEN {b \in SeqsUpTo(OpenAILines, MaxBatch) :
          Len(consumed) + Len(b) <= MaxEvents}
  ELSE {}

\* the transport has nothing more: the stream ends
EndOffered == mode = "free" \/ script = << >>

\* the generator takes one raw event
Take(event) ==
  /\ consumed' = Append(consumed, event)
  /\ UNCHANGED <<backend, mode, scenario, cancelled, restVars>>

(***************************************************************************)
(* BedrockContentGenerator.generateContentStream: the generator, one loop  *)
(* iteration per action.                                                   *)
(***************************************************************************)
NoToolUse == [id |-> EmptyStr, name |-> EmptyStr]

\* the fragment replaces the accumulated text instead of extending it
AppendInputOverwrites(accumulated, input) == input

\* accumulatedInput += chunk.delta.input || ''
AppendInput(accumulated, input) == accumulated \o input

\* accumulatedInput ? JSON.parse(accumulatedInput) : {}
ParseToolInput(accumulated) ==
  IF accumulated # EmptyStr THEN JSONParse(accumulated) ELSE POk(EmptyObject, 0)

\* the fragment of a completed tool_use block; it carries the name only
ToolUseFragment(toolUse, parsedInput) ==
  Fragment(<<FunctionCallPart(EmptyStr, toolUse.name, parsedInput)>>, NoFinish)

BedrockStep(chunk) ==
  /\ backend = "bedrock"
  /\ pc = "streaming"
  /\ chunk \in BedrockOffered
  /\ Take(chunk)
  /\ script' = IF mode = "scripted" THEN Tail(script) ELSE script
  /\ UNCHANGED <<pc, accumulatedToolCalls, accumulatedContent, lines,
                 released>>

BedrockTextDelta ==
  \E chunk \in BedrockOffered :
    /\ chunk.type = "content_block_delta" /\ chunk.dtype = "text_delta"
    /\ BedrockStep(chunk)
    /\ out' = Append(out, Fragment(<<TextPart(chunk.text)>>, NoFinish))
    /\ UNCHANGED <<currentToolUse, accumulatedInput>>

BedrockToolUseStart ==
  \E chunk \in BedrockOffered :
    /\ chunk.type = "content_block_start" /\ chunk.dtype = "tool_use"
    /\ BedrockStep(chunk)
    /\ currentToolUse' = [id |-> chunk.id, name |-> chunk.name]
    /\ accumulatedInput' = EmptyStr
    /\ UNCHANGED out

BedrockInputJsonDelta ==
  \E chunk \in BedrockOffered :
    /\ chunk.type = "content_block_delta" /\ chunk.dtype = "input_json_delta"
    /\ BedrockStep(chunk)
    /\ accumulatedInput' = AppendInput(accumulatedInput, chunk.input)
    /\ UNCHANGED <<out, currentToolUse>>

BedrockContentBlockStop ==
  \E chunk \in BedrockOffered :
    /\ chunk.type = "content_block_stop" /\ currentToolUse.name # EmptyStr
    /\ BedrockStep(chunk)
    /\ LET parsedInput == ParseToolInput(accumulatedInput) IN
       out' = IF parsedInput.ok
              THEN Append(out, ToolUseFragment(currentToolUse, parsedInput.v))
              ELSE out
    /\ currentToolUse' = NoToolUse
    /\ accumulatedInput' = EmptyStr

\* any other chunk falls through the if-chain: message_stop, and a
\* content_block_stop while no named tool_use block is open
BedrockOtherChunk ==
  \E chunk \in BedrockOffered :
    /\ \/ chunk.type = "message_stop"
       \/ chunk.type = "content_block_stop" /\ currentToolUse.name = EmptyStr
    /\ BedrockStep(chunk)
    /\ UNCHANGED <<out, currentToolUse, accumulatedInput>>

\* the for-await loop ends with the stream: the generator returns
BedrockStreamEnd ==
  /\ backend = "bedrock"
  /\ pc = "streaming"
  /\ EndOffered
  /\ pc' = "done"
  /\ UNCHANGED <<backend, mode, scenario, script, consumed, out, cancelled,
                 currentToolUse, accumulatedInput, accumulatedToolCalls,
                 accumulatedContent, lines, restVars, released>>

\* the stream iterator rejects: the generator throws
BedrockStreamError ==
  /\ backend = "bedrock"
  /\ pc = "streaming"
  /\ pc' = "failed"
  /\ UNCHANGED <<backend, mode, scenario, script, consumed, out, cancelled,
                 currentToolUse, accumulatedInput, accumulatedToolCalls,
                 accumulatedContent, lines, restVars, released>>

(***************************************************************************)
(* OpenAIContentGenerator.generateContentStream: the generator.  A read    *)
(* delivers the complete lines of one chunk of the body; each line is      *)
(* processed in one action.                                                *)
(***************************************************************************)
\* toolCallDelta.index ?? 0; -1 is a missing index
DeltaIndex(toolCallDelta) ==
  IF toolCallDelta.index = -1 THEN 0 ELSE toolCallDelta.index

\* position of the entry of index in the Map (insertion order), 0 if none
EntryPos(calls, index) ==
  IF \E p \in 1..Len(calls) : calls[p].index = index
  THEN CHOOSE p \in 1..Len(calls) : calls[p].index = index
  ELSE 0

\* accumulated.function.arguments = (arguments || '') + delta.arguments,
\* when the delta carries arguments
AppendArguments(accumulated, arguments) ==
  IF arguments # EmptyStr THEN accumulated \o arguments ELSE accumulated

\* one toolCallDelta folded into accumulatedToolCalls
AccumulateDelta(calls, toolCallDelta) ==
  LET index == DeltaIndex(toolCallDelta)
      withEntry ==
        IF EntryPos(calls, index) = 0
        THEN Append(calls, [index |-> index, id |-> EmptyStr,
                            name |-> EmptyStr, arguments |-> EmptyStr])
        ELSE calls
      p == EntryPos(withEntry, index)
  IN [withEntry EXCEPT
        ![p].id = IF toolCallDelta.id # EmptyStr THEN toolCallDelta.id ELSE @,
        ![p].name = IF toolCallDelta.name # EmptyStr
                    THEN @ \o toolCallDelta.name ELSE @,
        ![p].arguments = AppendArguments(@, toolCallDelta.arguments)]

RECURSIVE AccumulateDeltas(_, _)
\* for (const toolCallDelta of choice.delta.tool_calls)
AccumulateDeltas(calls, tool_calls) ==
  IF tool_calls = << >> THEN calls
  ELSE AccumulateDeltas(AccumulateDelta(calls, Head(tool_calls)),
                        Tail(tool_calls))

\* .filter(toolCall => toolCall.id && toolCall.function?.name)
IsCompleteCall(toolCall) == toolCall.id # EmptyStr /\ toolCall.name # EmptyStr

CompletedCalls(calls) == SelectSeq(calls, IsCompleteCall)

\* JSON.parse(toolCall.function.arguments || '{}')
ParseArguments(arguments) ==
  JSONParse(IF arguments = EmptyStr THEN <<"{", "}">> ELSE arguments)

\* no JSON.parse of the map over the completed calls throws
ArgumentsParse(calls) ==
  \A p \in 1..Len(CompletedCalls(calls)) :
    ParseArguments(CompletedCalls(calls)[p].arguments).ok

FunctionCalls(calls) ==
  [p \in 1..Len(CompletedCalls(calls)) |->
     FunctionCallPart(CompletedCalls(calls)[p].id,
                      CompletedCalls(calls)[p].name,
                      ParseArguments(CompletedCalls(calls)[p].arguments).v)]

\* the content delta is kept for the final fragment and not yielded
ContentFragmentsBuffered(line) == << >>

\* the fragment yielded for a content delta; it carries a finishReason
ContentFragments(line) ==
  IF line.content # EmptyStr
  THEN <<Fragment(<<TextPart(line.content)>>,
                  mapFinishReason(OrOther(line.finish_reason)))>>
  ELSE << >>

\* the parts of the final fragment when tool calls were accumulated
FinalParts(content, calls) ==
  (IF content # EmptyStr THEN <<TextPart(content)>> ELSE << >>)
    \o FunctionCalls(calls)

\* the fragment yielded when finish_reason is set
FinishFragment(content, calls, finish_reason) ==
  IF Len(calls) > 0
  THEN Fragment(FinalParts(content, calls),
                mapFinishReason(OrOther(finish_reason)))
  ELSE Fragment(<< >>, mapFinishReason(OrOther(finish_reason)))

\* the finally block left out
ReleaseLockSkipped(count) == count

\* finally { reader.releaseLock() }
ReleaseLock(count) == count + 1

\* const { done, value } = await reader.read(), with lines in the chunk
OpenAIRead ==
  /\ backend = "openai"
  /\ pc = "streaming"
  /\ lines = << >>
  /\ ~cancelled
  /\ \E batch \in OpenAIOffered :
       /\ lines' = batch
       /\ script' = IF mode = "scripted"
                    THEN SubSeq(script, Len(batch) + 1, Len(script))
                    ELSE script
  /\ UNCHANGED <<backend, mode, scenario, consumed, out, pc, cancelled,
                 currentToolUse, accumulatedInput, accumulatedToolCalls,
                 accumulatedContent, restVars,
                 released>>

\* the text of a body is a sequence of units: a newline, or one of the two
\* halves of the text of a record, so that a read can end inside a record
Unit(half, line) == [half |-> half, line |-> line]

NewLine == Unit(0, OBlank)

LineText(line) ==
  IF line = OBlank THEN << >> ELSE <<Unit(1, line), Unit(2, line)>>

RECURSIVE BodyText(_, _)
\* the body that carries the records, each followed by a newline; the last
\* one only when terminated
BodyText(records, terminated) ==
  IF records = << >> THEN << >>
  ELSE LineText(Head(records))
         \o (IF Tail(records) # << >> \/ terminated
             THEN <<NewLine>> ELSE << >>)
         \o BodyText(Tail(records), terminated)

RECURSIVE SplitOn(_, _, _)
SplitOn(text, piece, pieces) ==
  IF text = << >> THEN Append(pieces, piece)
  ELSE IF Head(text) = NewLine
  THEN SplitOn(Tail(text), << >>, Append(pieces, piece))
  ELSE SplitOn(Tail(text), Append(piece, Head(text)), pieces)

\* text.split('\n')
Split(text) == SplitOn(text, << >>, << >>)

\* what the loop body makes of one line: a blank line, a whole record, or
\* a text that is no record and is passed over
ParseLine(text) ==
  IF text = << >> THEN OBlank
  ELSE IF /\ Len(text) = 2
          /\ text[1].half = 1 /\ text[2].half = 2
          /\ text[1].line = text[2].line
  THEN text[1].line
  ELSE OBad

\* const { done, value } = await reader.read() with a chunk of the body;
\* buffer += decode(value); lines = buffer.split('\n'); buffer = lines.pop()
OpenAIReadBytes ==
  /\ backend = "openai"
  /\ mode = "bytes"
  /\ pc = "streaming"
  /\ lines = << >>
  /\ ~cancelled
  /\ \E n \in 1..MaxChunk :
       /\ n <= Len(script)
       /\ LET pieces == Split(buffer \o SubSeq(script, 1, n)) IN
            /\ lines' = [p \in 1..(Len(pieces) - 1) |-> ParseLine(pieces[p])]
            /\ buffer' = pieces[Len(pieces)]
       /\ script' = SubSeq(script, n + 1, Len(script))
  /\ UNCHANGED <<backend, mode, scenario, consumed, out, pc, cancelled,
                 currentToolUse, accumulatedInput, accumulatedToolCalls,
                 accumulatedContent, genVars, pulls, released, parked>>

\* the generator takes the next line of the chunk
OpenAIStep ==
  /\ backend = "openai"
  /\ pc = "streaming"
  /\ lines # << >>
  /\ Take(Head(lines))
  /\ lines' = Tail(lines)
  /\ UNCHANGED <<script, currentToolUse, accumulatedInput>>

\* trimmed === '' || trimmed === 'data: [DONE]': continue
OpenAISkipLine ==
  /\ OpenAIStep
  /\ Head(lines).kind \in {"blank", "done"}
  /\ UNCHANGED <<out, pc, accumulatedToolCalls, accumulatedContent,
                 released>>

\* JSON.parse(jsonStr) throws: caught, a warning is logged, the loop goes on
OpenAIBadLine ==
  /\ OpenAIStep
  /\ Head(lines).kind = "bad"
  /\ UNCHANGED <<out, pc, accumulatedToolCalls, accumulatedContent,
                 released>>

\* a chunk without finish_reason: content is yielded, tool calls accumulated
OpenAIDelta ==
  /\ OpenAIStep
  /\ Head(lines).kind = "data" /\ Head(lines).finish_reason = Null
  /\ accumulatedContent' = accumulatedContent \o Head(lines).content
  /\ out' = out \o ContentFragments(Head(lines))
  /\ accumulatedToolCalls' =
       AccumulateDeltas(accumulatedToolCalls, Head(lines).tool_calls)
  /\ UNCHANGED <<pc, released>>

\* a chunk with finish_reason: the final fragment is yielded and the
\* generator, resumed, returns through its finally block
OpenAIFinish ==
  /\ OpenAIStep
  /\ Head(lines).kind = "data" /\ Head(lines).finish_reason # Null
  /\ accumulatedContent' = accumulatedContent \o Head(lines).content
  /\ accumulatedToolCalls' =
       AccumulateDeltas(accumulatedToolCalls, Head(lines).tool_calls)
  /\ ArgumentsParse(accumulatedToolCalls')
  /\ out' = out \o ContentFragments(Head(lines))
              \o <<FinishFragment(accumulatedContent', accumulatedToolCalls',
                                  Head(lines).finish_reason)>>
  /\ pc' = "done"
  /\ released' = ReleaseLock(released)

\* a chunk with finish_reason whose accumulated arguments do not parse:
\* JSON.parse throws inside the chunk's try, the catch logs a warning,
\* nothing is yielded for the finish and the loop goes on
OpenAIFinishThrows ==
  /\ OpenAIStep
  /\ Head(lines).kind = "data" /\ Head(lines).finish_reason # Null
  /\ accumulatedContent' = accumulatedContent \o Head(lines).content
  /\ accumulatedToolCalls' =
       AccumulateDeltas(accumulatedToolCalls, Head(lines).tool_calls)
  /\ ~ArgumentsParse(accumulatedToolCalls')
  /\ out' = out \o ContentFragments(Head(lines))
  /\ UNCHANGED <<pc, released>>

\* reader.read() reports done: break, the generator returns through its
\* finally block; what is left in buffer is dropped
OpenAIReadDone ==
  /\ backend = "openai"
  /\ pc = "streaming"
  /\ lines = << >>
  /\ ~cancelled
  /\ EndOffered
  /\ pc' = "done"
  /\ released' = ReleaseLock(released)
  /\ UNCHANGED <<backend, mode, scenario, script, consumed, out, cancelled,
                 currentToolUse, accumulatedInput, accumulatedToolCalls,
                 accumulatedContent, lines, restVars>>

\* reader.read() rejects (the fetch was aborted through the signal, or the
\* transport failed): the generator throws.  A read after the abort always
\* rejects (OpenAIRead and OpenAIReadDone need ~cancelled)
OpenAIReadError ==
  /\ backend = "openai"
  /\ pc = "streaming"
  /\ lines = << >>
  /\ pc' = "failed"
  /\ released' = ReleaseLock(released)
  /\ UNCHANGED <<backend, mode, scenario, script, consumed, out, cancelled,
                 currentToolUse, accumulatedInput, accumulatedToolCalls,
                 accumulatedContent, lines, restVars>>

\* the caller triggers its abort signal
Cancel ==
  /\ pc = "streaming"
  /\ ~cancelled
  /\ cancelled' = TRUE
  /\ UNCHANGED <<backend, mode, scenario, script, consumed, out, pc,
                 currentToolUse, accumulatedInput, accumulatedToolCalls,
                 accumulatedContent, lines, restVars, released>>

(***************************************************************************)
(* The caller of the async generator.  The body of an async function* runs *)
(* only while a next() is unanswered: it is suspended before its first     *)
(* statement until the first next(), and at each yield until the next one. *)
(***************************************************************************)
\* the generator body runs whether or not the caller asked
PullNotAwaited == TRUE

\* a next() of the caller has not been answered
PullOutstanding == pulls > Len(out)

\* the caller calls next(), its earlier ones answered
Pull ==
  /\ pc = "streaming"
  /\ pulls <= Len(out)
  /\ pulls' = Len(out) + 1
  /\ UNCHANGED <<backend, mode, scenario, script, consumed, out, pc,
                 cancelled, currentToolUse, accumulatedInput,
                 accumulatedToolCalls, accumulatedContent, lines, genVars,
                 buffer, released, parked>>

\* the caller stops iterating early (a break out of for await): return()
\* on the generator suspended at a yield completes it through the finally
\* block of the OpenAI generator; the Bedrock generator has none
Return ==
  /\ pc = "streaming"
  /\ pulls > 0
  /\ pulls = Len(out)
  /\ pc' = "returned"
  /\ released' = IF backend = "openai" THEN ReleaseLock(released)
                 ELSE released
  /\ UNCHANGED <<backend, mode, scenario, script, consumed, out, cancelled,
                 currentToolUse, accumulatedInput, accumulatedToolCalls,
                 accumulatedContent, lines, restVars>>

(***************************************************************************)
(* Two generateContentStream calls on one instance.  The instance holds    *)
(* what its constructor set (the backend, baseUrl); the body, the reader,  *)
(* the buffer and the accumulators are locals of the method and of its     *)
(* generator, and the abort signal comes with the request: each call has   *)
(* its own.  The call that is not stepping is kept in parked.              *)
(***************************************************************************)
\* no other streaming call
NoCall == [parked |-> FALSE]

\* a field of the instance: the call resumed finds what the other left
Shared(own, other) == other

\* a local of the call: the call resumed finds what it left itself
Own(own, other) == own

ThisCall ==
  [parked |-> TRUE, script |-> script, consumed |-> consumed, out |-> out,
   pc |-> pc, cancelled |-> cancelled, currentToolUse |-> currentToolUse,
   accumulatedInput |-> accumulatedInput,
   accumulatedToolCalls |-> accumulatedToolCalls,
   accumulatedContent |-> accumulatedContent, lines |-> lines,
   buffer |-> buffer, pulls |-> pulls, released |-> released]

\* the caller turns from one call to the other
Switch ==
  /\ parked # NoCall
  /\ parked' = ThisCall
  /\ script' = parked.script
  /\ consumed' = parked.consumed
  /\ out' = parked.out
  /\ pc' = parked.pc
  /\ cancelled' = parked.cancelled
  /\ pulls' = parked.pulls
  /\ released' = parked.released
  /\ currentToolUse' = Own(parked.currentToolUse, currentToolUse)
  /\ accumulatedInput' = Own(parked.accumulatedInput, accumulatedInput)
  /\ accumulatedToolCalls' =
       Own(parked.accumulatedToolCalls, accumulatedToolCalls)
  /\ accumulatedContent' = Own(parked.accumulatedContent, accumulatedContent)
  /\ lines' = Own(parked.lines, lines)
  /\ buffer' = Own(parked.buffer, buffer)
  /\ UNCHANGED <<backend, mode, scenario, genVars>>

(***************************************************************************)
(* generateContent: the non-streaming response translators.                *)
(***************************************************************************)
\* usageMetadata; NoUsage is a response without the field
Usage(prompt, candidates, total) ==
  [promptTokenCount |-> prompt, candidatesTokenCount |-> candidates,
   totalTokenCount |-> total]

NoUsage == Usage(-1, -1, -1)

\* a GenerateContentResponse returned to the caller
Response(parts, finishReason, usage) ==
  [status |-> "ok", error |-> "", parts |-> parts,
   finishReason |-> finishReason, usage |-> usage, httpStatus |-> -1,
   statusText |-> "", body |-> EmptyStr, embedding |-> << >>,
   totalTokens |-> -1]

\* the call rejects with an Error of this message
Failure(error) ==
  [status |-> "error", error |-> error, parts |-> << >>,
   finishReason |-> NoFinish, usage |-> NoUsage, httpStatus |-> -1,
   statusText |-> "", body |-> EmptyStr, embedding |-> << >>,
   totalTokens |-> -1]

\* the error names the status and leaves the body of the answer out
HttpFailureWithoutBody(answer) ==
  [Failure("OpenAI API error") EXCEPT !.httpStatus = answer.status,
                                      !.statusText = answer.statusText]

\* Error(`OpenAI API error: ${status} ${statusText} - ${errorText}`)
HttpFailure(answer) ==
  [Failure("OpenAI API error") EXCEPT !.httpStatus = answer.status,
                                      !.statusText = answer.statusText,
                                      !.body = answer.body]

\* what the AnthropicBedrock client may reject with when the transport
\* fails: the generator passes the client's error on as it is
SdkFailures(answer) ==
  {[Failure("AnthropicBedrock client error") EXCEPT !.httpStatus = st,
                                                    !.body = b] :
     st \in {answer.status, -1}, b \in {answer.body, EmptyStr}}

\* an EmbedContentResponse: embeddings[0].values
EmbedResponse(values) ==
  [Response(<< >>, NoFinish, NoUsage) EXCEPT !.embedding = values]

\* the transport's answer: response.ok, status, statusText, text()
HttpAnswer(ok, status, statusText, body) ==
  [ok |-> ok, status |-> status, statusText |-> statusText, body |-> body]

OkAnswer == HttpAnswer(TRUE, 200, "OK", EmptyStr)

NoResult == Failure("pending")

\* a BedrockContentBlock; input is NoArgs when the block has none
BedrockBlock(type, text, name, input) ==
  [type |-> type, text |-> text, name |-> name, input |-> input]

\* a BedrockResponse; usage.input_tokens and output_tokens are -1 when the
\* response has no usage
BedrockResponse(content, input_tokens, output_tokens) ==
  [content |-> content, input_tokens |-> input_tokens,
   output_tokens |-> output_tokens]

\* response.usage?.x || 0
OrZero(tokens) == IF tokens = -1 THEN 0 ELSE tokens

RECURSIVE BedrockBlocks(_, _, _)
\* the loop over response.content: the parts, or the error of the first
\* text block that is not JSON in JSON mode
BedrockBlocks(blocks, isJsonMode, parts) ==
  IF blocks = << >> THEN [ok |-> TRUE, parts |-> parts]
  ELSE LET block == Head(blocks) IN
       IF block.type = "text" /\ block.text # EmptyStr
       THEN IF isJsonMode /\ ~JSONParse(block.text).ok
            THEN [ok |-> FALSE, parts |-> parts]
            ELSE BedrockBlocks(Tail(blocks), isJsonMode,
                               Append(parts, TextPart(block.text)))
       ELSE IF block.type = "tool_use" /\ block.name # EmptyStr
       THEN BedrockBlocks(
              Tail(blocks), isJsonMode,
              Append(parts,
                     FunctionCallPart(EmptyStr, block.name,
                                      IF block.input = NoArgs
                                      THEN EmptyObject ELSE block.input)))
       ELSE BedrockBlocks(Tail(blocks), isJsonMode, parts)

\* BedrockContentGenerator.convertToGeminiResponse
BedrockConvertToGeminiResponse(response, isJsonMode) ==
  LET r == BedrockBlocks(response.content, isJsonMode, << >>) IN
  IF ~r.ok THEN Failure("Bedrock API returned invalid JSON")
  ELSE Response(r.parts, NoFinish,
                Usage(OrZero(response.input_tokens),
                      OrZero(response.output_tokens),
                      OrZero(response.input_tokens)
                        + OrZero(response.output_tokens)))

\* one element of message.tool_calls
OpenAIToolCall(id, name, arguments) ==
  [id |-> id, name |-> name, arguments |-> arguments]

\* one element of choices; content is EmptyStr when it is null
OpenAIChoice(content, tool_calls, finish_reason) ==
  [content |-> content, tool_calls |-> tool_calls,
   finish_reason |-> finish_reason]

OpenAIResponse(choices, prompt_tokens, completion_tokens, total_tokens) ==
  [choices |-> choices, prompt_tokens |-> prompt_tokens,
   completion_tokens |-> completion_tokens, total_tokens |-> total_tokens]

\* the function calls of message.tool_calls, the last one first
ToolCallsReversed(tool_calls) ==
  [p \in 1..Len(tool_calls) |->
     FunctionCallPart(
       tool_calls[Len(tool_calls) + 1 - p].id,
       tool_calls[Len(tool_calls) + 1 - p].name,
       ParseArguments(tool_calls[Len(tool_calls) + 1 - p].arguments).v)]

\* the parts of the function calls of message.tool_calls
ToolCallsToParts(tool_calls) ==
  [p \in 1..Len(tool_calls) |->
     FunctionCallPart(tool_calls[p].id, tool_calls[p].name,
                      ParseArguments(tool_calls[p].arguments).v)]

\* OpenAIContentGenerator.convertToGeminiResponse
OpenAIConvertToGeminiResponse(response) ==
  IF response.choices = << >> THEN Failure("No choices in OpenAI API response")
  ELSE LET choice == response.choices[1] IN
       IF Len(choice.tool_calls) > 0
       THEN IF \E p \in 1..Len(choice.tool_calls) :
                 ~ParseArguments(choice.tool_calls[p].arguments).ok
            THEN Failure("SyntaxError")
            ELSE Response(
                   (IF choice.content # EmptyStr
                    THEN <<TextPart(choice.content)>> ELSE << >>)
                     \o ToolCallsToParts(choice.tool_calls),
                   mapFinishReason(choice.finish_reason), NoUsage)
       ELSE Response(<<TextPart(choice.content)>>,
                     mapFinishReason(choice.finish_reason),
                     Usage(response.prompt_tokens, response.completion_tokens,
                           response.total_tokens))

\* what a call leaves alone besides its result and its request count
callFrame ==
  <<backend, streamVars, request, backendResponse, op, configuredUrl, baseUrl,
    http, contents, sent, config, backendRequest>>

\* BedrockContentGenerator.generateContent: client.messages.create, then
\* convertToGeminiResponse of its answer
BedrockGenerate ==
  /\ backend = "bedrock"
  /\ pc = "generate"
  /\ fetches' = fetches + 1
  /\ result' \in IF http.ok
                 THEN {BedrockConvertToGeminiResponse(backendResponse,
                                                      request.isJsonMode)}
                 ELSE SdkFailures(http)
  /\ pc' = IF result'.status = "ok" THEN "done" ELSE "failed"
  /\ UNCHANGED callFrame

\* OpenAIContentGenerator.generateContent: fetch, the !response.ok check,
\* then convertToGeminiResponse of the body
OpenAIGenerate ==
  /\ backend = "openai"
  /\ pc = "generate"
  /\ fetches' = fetches + 1
  /\ result' = IF http.ok THEN OpenAIConvertToGeminiResponse(backendResponse)
                ELSE HttpFailure(http)
  /\ pc' = IF result'.status = "ok" THEN "done" ELSE "failed"
  /\ UNCHANGED callFrame

\* OpenAIContentGenerator.generateContentStream up to the return of the
\* generator: fetch, the !response.ok check and the check of response.body,
\* which an OK answer may or may not have; the steps of the generator are
\* the actions of the streaming specifications
OpenAIStreamOpen ==
  /\ backend = "openai"
  /\ pc = "stream"
  /\ fetches' = fetches + 1
  /\ result' \in IF http.ok
                 THEN {result, Failure("No response body for streaming")}
                 ELSE {HttpFailure(http)}
  /\ pc' = IF result' = result THEN "streaming" ELSE "failed"
  /\ UNCHANGED callFrame

\* BedrockContentGenerator.generateContentStream up to the return of the
\* generator: client.messages.create
BedrockStreamOpen ==
  /\ backend = "bedrock"
  /\ pc = "stream"
  /\ fetches' = fetches + 1
  /\ result' \in IF http.ok THEN {result} ELSE SdkFailures(http)
  /\ pc' = IF http.ok THEN "streaming" ELSE "failed"
  /\ UNCHANGED callFrame

(***************************************************************************)
(* embedContent.                                                           *)
(***************************************************************************)
OPENAI_BASE_URL == <<"https://api.openai.com/v1">>

\* url.replace(/\/$/, ''): a URL is its text up to a trailing slash, then
\* the slash if it has one
StripTrailingSlash(url) ==
  IF url # << >> /\ url[Len(url)] = "/"
  THEN SubSeq(url, 1, Len(url) - 1) ELSE url

\* the constructor: (baseUrl || OPENAI_BASE_URL).replace(/\/$/, '');
\* << >> is a baseUrl that was not given
ConstructBaseUrl(url) ==
  StripTrailingSlash(IF url = << >> THEN OPENAI_BASE_URL ELSE url)

\* every endpoint is taken for the native one
IsNativeAlways(url) == TRUE

\* isNativeOpenAI
IsNativeOpenAI(url) ==
  url = OPENAI_BASE_URL \/ url = <<"https://api.openai.com/v1">>

\* BedrockContentGenerator.embedContent
BedrockEmbed ==
  /\ backend = "bedrock"
  /\ pc = "embed"
  /\ result' =
       Failure("Embeddings are not supported with AWS Bedrock Claude models")
  /\ pc' = "failed"
  /\ UNCHANGED <<callFrame, fetches>>

\* OpenAIContentGenerator.embedContent on an endpoint that is not native
OpenAIEmbedNotNative ==
  /\ backend = "openai"
  /\ pc = "embed"
  /\ ~IsNativeOpenAI(baseUrl)
  /\ result' = Failure(
       "This OpenAI-compatible API endpoint may not support embeddings")
  /\ pc' = "failed"
  /\ UNCHANGED <<callFrame, fetches>>

\* OpenAIContentGenerator.embedContent on the native endpoint: fetch, the
\* !response.ok check, then data.data[0].embedding
OpenAIEmbed ==
  /\ backend = "openai"
  /\ pc = "embed"
  /\ IsNativeOpenAI(baseUrl)
  /\ fetches' = fetches + 1
  /\ result' = IF http.ok THEN EmbedResponse(backendResponse.embedding)
                ELSE HttpFailure(http)
  /\ pc' = IF result'.status = "ok" THEN "done" ELSE "failed"
  /\ UNCHANGED callFrame

(***************************************************************************)
(* The answers a backend may give to generateContent.                      *)
(***************************************************************************)
\* every sequence of 0..n elements of S
SeqsFromZero(S, n) == {<< >>} \cup SeqsUpTo(S, n)

BedrockBlockSet ==
  {BedrockBlock("text", t, EmptyStr, NoArgs) :
     t \in {<<"a">>, <<"{", "}">>, EmptyStr}}
    \cup {BedrockBlock("tool_use", EmptyStr, n, i) :
            n \in {<<"f">>, EmptyStr},
            i \in {JObj(<<"x">> :> JNum(1)), NoArgs}}

BedrockResponses ==
  {BedrockResponse(c, u[1], u[2]) :
     c \in SeqsFromZero(BedrockBlockSet, MaxBlocks),
     u \in {<<3, 4>>, <<-1, -1>>}}

OpenAIToolCallSet ==
  {OpenAIToolCall(<<"c", "0">>, n, a) :
     n \in {<<"f">>, EmptyStr},
     a \in {EmptyStr, <<"{", "}">>, <<"1", "}">>}}

\* finish_reason values of an answer: the four the mapper knows, and
\* others (a legacy code, the empty string, a code in another case)
FinishCodes ==
  {"stop", "length", "content_filter", "tool_calls", "function_call", "",
   "STOP"}

OpenAIResponses ==
  {OpenAIResponse(<< >>, 3, 4, 7)}
    \cup {OpenAIResponse(<<OpenAIChoice(c, tc, f)>>, 3, 4, 7) :
            c \in {EmptyStr, <<"a">>},
            tc \in SeqsFromZero(OpenAIToolCallSet, MaxBlocks),
            f \in FinishCodes}

(***************************************************************************)
(* Translation of the conversation into the messages of the backend        *)
(* request: convertToAnthropicMessages and convertToOpenAIMessages.        *)
(***************************************************************************)
\* the concatenation of a sequence of sequences
RECURSIVE Flatten(_)
Flatten(seqs) ==
  IF seqs = << >> THEN << >> ELSE Head(seqs) \o Flatten(Tail(seqs))

\* a functionResponse part; args holds its response
FunctionResponsePart(id, name, response) ==
  [kind |-> "functionResponse", text |-> EmptyStr, id |-> id, name |-> name,
   args |-> response]

IsFunctionResponse(part) == part.kind = "functionResponse"

Content(role, parts) == [role |-> role, parts |-> parts]

\* the decimal text of a small number
Decimal(n) ==
  CASE n = 0 -> "0" [] n = 1 -> "1" [] n = 2 -> "2" [] n = 3 -> "3"
    [] n = 4 -> "4" [] n = 5 -> "5" [] n = 6 -> "6" [] n = 7 -> "7"
    [] n = 8 -> "8" [] OTHER -> "9"

\* a BedrockContentBlock of a request
AnthropicBlock(type, text, id, name, input, tool_use_id, content) ==
  [type |-> type, text |-> text, id |-> id, name |-> name, input |-> input,
   tool_use_id |-> tool_use_id, content |-> content]

\* a BedrockMessage; content is a string (isString) or a list of blocks
BedrockMessage(role, isString, text, blocks) ==
  [role |-> role, isString |-> isString, text |-> text, blocks |-> blocks]

\* the block of one part and the clock readings left, or no block
AnthropicBlockOf(part, times) ==
  IF IsText(part) /\ part.text # EmptyStr
  THEN [blocks |-> <<AnthropicBlock("text", part.text, EmptyStr, EmptyStr,
                                     NoArgs, EmptyStr, EmptyStr)>>,
        times |-> times]
  ELSE IF IsFunctionCall(part)
  THEN [blocks |-> <<AnthropicBlock(
                       "tool_use", EmptyStr,
                       <<"call_", Decimal(Head(times))>>, part.name,
                       IF part.args = NoArgs THEN EmptyObject ELSE part.args,
                       EmptyStr, EmptyStr)>>,
        times |-> Tail(times)]
  ELSE IF IsFunctionResponse(part)
  THEN [blocks |-> <<AnthropicBlock("tool_result", EmptyStr, EmptyStr,
                                     EmptyStr, NoArgs, part.name,
                                     JSONStringify(part.args))>>,
        times |-> times]
  ELSE [blocks |-> << >>, times |-> times]

RECURSIVE AnthropicBlocks(_, _, _)
\* the loop over the parts of one Content
AnthropicBlocks(parts, times, blocks) ==
  IF parts = << >> THEN [blocks |-> blocks, times |-> times]
  ELSE LET b == AnthropicBlockOf(Head(parts), times) IN
       AnthropicBlocks(Tail(parts), b.times, blocks \o b.blocks)

\* BedrockContentGenerator.convertPartsToAnthropicContent
ConvertPartsToAnthropicContent(role, parts, times) ==
  IF Len(parts) = 1 /\ IsText(parts[1]) /\ parts[1].text # EmptyStr
  THEN [messages |-> <<BedrockMessage(role, TRUE, parts[1].text, << >>)>>,
        times |-> times]
  ELSE LET b == AnthropicBlocks(parts, times, << >>) IN
       [messages |-> <<BedrockMessage(role, FALSE, EmptyStr, b.blocks)>>,
        times |-> b.times]

RECURSIVE ConvertToAnthropicMessages(_, _, _)
\* BedrockContentGenerator.convertToAnthropicMessages; times are the values
\* the successive Date.now() calls return
ConvertToAnthropicMessages(conversation, times, messages) ==
  IF conversation = << >> THEN messages
  ELSE LET content == Head(conversation) IN
       IF content.role \in {"user", "model"}
       THEN LET m == ConvertPartsToAnthropicContent(
                       IF content.role = "user" THEN "user" ELSE "assistant",
                       content.parts, times)
            IN ConvertToAnthropicMessages(Tail(conversation), m.times,
                                          messages \o m.messages)
       ELSE ConvertToAnthropicMessages(Tail(conversation), times, messages)

\* an OpenAIMessage; content is null when hasContent is FALSE
OpenAIMessage(role, hasContent, content, tool_calls, tool_call_id) ==
  [role |-> role, hasContent |-> hasContent, content |-> content,
   tool_calls |-> tool_calls, tool_call_id |-> tool_call_id]

RECURSIVE JoinLines(_)
\* texts.join('\n')
JoinLines(texts) ==
  IF texts = << >> THEN EmptyStr
  ELSE IF Len(texts) = 1 THEN texts[1]
  ELSE texts[1] \o <<"\n">> \o JoinLines(Tail(texts))

\* textParts.map(part => part.text).join('\n')
CombinedText(parts) ==
  LET textParts == SelectSeq(parts, IsText) IN
  JoinLines([p \in 1..Len(textParts) |-> textParts[p].text])

\* functionCall.id || `call_${Date.now()}_${index}`; index counts from 0
ToolCallId(functionCall, now, index) ==
  IF functionCall.id # EmptyStr THEN functionCall.id
  ELSE <<"call_", Decimal(now), "_", Decimal(index)>>

\* functionCalls.map((part, index) => ...): the tool_calls of one message;
\* times[p] is the value Date.now() returns for the p-th call
ToolCallsOf(functionCalls, times) ==
  [p \in 1..Len(functionCalls) |->
     [id |-> ToolCallId(functionCalls[p], times[p], p - 1),
      name |-> functionCalls[p].name,
      arguments |-> JSONStringify(IF functionCalls[p].args = NoArgs
                                  THEN EmptyObject
                                  ELSE functionCalls[p].args)]]

\* the messages of one Content and the clock readings left
OpenAIMessagesOf(content, times) ==
  LET role == IF content.role = "model" THEN "assistant" ELSE content.role
      functionCalls == SelectSeq(content.parts, IsFunctionCall)
      functionResponses == SelectSeq(content.parts, IsFunctionResponse)
      textParts == SelectSeq(content.parts, IsText)
  IN IF Len(functionCalls) > 0
     THEN [messages |->
             <<OpenAIMessage(role, CombinedText(content.parts) # EmptyStr,
                             CombinedText(content.parts),
                             ToolCallsOf(functionCalls, times), EmptyStr)>>,
           times |-> SubSeq(times, Len(functionCalls) + 1, Len(times))]
     ELSE IF Len(functionResponses) > 0
     THEN [messages |->
             [p \in 1..Len(functionResponses) |->
                OpenAIMessage("tool", TRUE,
                              JSONStringify(functionResponses[p].args),
                              << >>, functionResponses[p].id)],
           times |-> times]
     ELSE IF Len(textParts) > 0
     THEN [messages |-> <<OpenAIMessage(role, TRUE,
                                        CombinedText(content.parts), << >>,
                                        EmptyStr)>>,
           times |-> times]
     ELSE [messages |-> << >>, times |-> times]

RECURSIVE ConvertToOpenAIMessages(_, _, _)
\* OpenAIContentGenerator.convertToOpenAIMessages
ConvertToOpenAIMessages(conversation, times, messages) ==
  IF conversation = << >> THEN messages
  ELSE LET m == OpenAIMessagesOf(Head(conversation), times) IN
       ConvertToOpenAIMessages(Tail(conversation), m.times,
                               messages \o m.messages)

\* the number of functionCall parts of a conversation
RECURSIVE CountCalls(_)
CountCalls(conversation) ==
  IF conversation = << >> THEN 0
  ELSE Len(SelectSeq(Head(conversation).parts, IsFunctionCall))
         + CountCalls(Tail(conversation))

\* the values n successive Date.now() calls may return: the clock does not
\* go back, and it need not advance between two calls
ClockReadings(n) ==
  {t \in [1..n -> 1..MaxTicks] : \A p \in 1..n, q \in 1..n :
                                   p <= q => t[p] <= t[q]}

\* the request of a Bedrock call is built
BedrockTranslate ==
  /\ backend = "bedrock"
  /\ pc = "translate"
  /\ \E times \in ClockReadings(CountCalls(contents)) :
       sent' = ConvertToAnthropicMessages(contents, times, << >>)
  /\ pc' = "translated"
  /\ UNCHANGED <<backend, streamVars, request, backendResponse, result, op,
                 configuredUrl, baseUrl, fetches, http, contents, config,
                 backendRequest>>

\* the request of an OpenAI call is built
OpenAITranslate ==
  /\ backend = "openai"
  /\ pc = "translate"
  /\ \E times \in ClockReadings(CountCalls(contents)) :
       sent' = ConvertToOpenAIMessages(contents, times, << >>)
  /\ pc' = "translated"
  /\ UNCHANGED <<backend, streamVars, request, backendResponse, result, op,
                 configuredUrl, baseUrl, fetches, http, contents, config,
                 backendRequest>>

\* the Content entries a conversation is made of: text in one part or in
\* two, one or two calls of the same tool with or without ids, their
\* results, and a result together with text
ContentSet ==
  LET call(id) == FunctionCallPart(id, <<"f">>, EmptyObject)
      resp(id) == FunctionResponsePart(id, <<"f">>, JNum(1))
  IN {Content("user", <<TextPart(<<"a">>)>>),
      Content("user", <<TextPart(<<"a">>), TextPart(<<"b">>)>>),
      Content("model", <<call(ToolId(0))>>),
      Content("model", <<call(EmptyStr)>>),
      Content("model", <<TextPart(<<"b">>), call(ToolId(0))>>),
      Content("model", <<call(ToolId(0)), call(ToolId(1))>>),
      Content("model", <<call(EmptyStr), call(EmptyStr)>>),
      Content("user", <<resp(ToolId(0))>>),
      Content("user", <<resp(EmptyStr)>>),
      Content("user", <<TextPart(<<"a">>), resp(ToolId(0))>>),
      Content("user", <<resp(ToolId(0)), resp(ToolId(1))>>)}

Conversations == SeqsUpTo(ContentSet, MaxContents)

\* the transport's answers: success, and two failures
HttpAnswers ==
  {OkAnswer, HttpAnswer(FALSE, 401, "Unauthorized", <<"k">>),
   HttpAnswer(FALSE, 500, "Internal Server Error", <<"e">>)}

\* the baseUrl values a generator may be constructed with
ConfiguredUrls ==
  {<< >>, OPENAI_BASE_URL, OPENAI_BASE_URL \o <<"/">>,
   <<"https://custom-api.example.com/v1">>}

\* the bodies of the embeddings endpoint: data[0].embedding
EmbeddingResponses == {[embedding |-> v] : v \in {<<1>>, <<1, 2>>}}

NoRequest == [isJsonMode |-> FALSE]

NoResponse == << >>

\* the value of a field that is not set
Undefined == "undefined"

NoConfig == [authType |-> Undefined, apiKey |-> Undefined, model |-> "m"]

\* no backend request has been built
NoBackendRequest == [built |-> FALSE]

\* a generateContentStream call that has returned its generator
InitStream ==
  /\ backend \in {"bedrock", "openai"}
  /\ consumed = << >>
  /\ out = << >>
  /\ pc = "streaming"
  /\ cancelled = FALSE
  /\ currentToolUse = NoToolUse
  /\ accumulatedInput = EmptyStr
  /\ accumulatedToolCalls = << >>
  /\ accumulatedContent = EmptyStr
  /\ lines = << >>
  /\ buffer = << >>
  /\ pulls = 0
  /\ released = 0
  /\ request = NoRequest
  /\ backendResponse = NoResponse
  /\ result = NoResult
  /\ op = "stream"
  /\ configuredUrl = << >>
  /\ baseUrl = ConstructBaseUrl(configuredUrl)
  /\ fetches = 1
  /\ http = OkAnswer
  /\ contents = << >>
  /\ sent = << >>
  /\ config = NoConfig
  /\ backendRequest = NoBackendRequest

Init ==
  /\ InitStream
  /\ parked = NoCall
  /\ mode = "free"
  /\ scenario = << >>
  /\ script = << >>

Next ==
  \/ BedrockTextDelta
  \/ BedrockToolUseStart
  \/ BedrockInputJsonDelta
  \/ BedrockContentBlockStop
  \/ BedrockOtherChunk
  \/ BedrockStreamEnd
  \/ BedrockStreamError
  \/ OpenAIRead
  \/ OpenAISkipLine
  \/ OpenAIBadLine
  \/ OpenAIDelta
  \/ OpenAIFinish
  \/ OpenAIFinishThrows
  \/ OpenAIReadDone
  \/ OpenAIReadError
  \/ Cancel

Spec == Init /\ [][Next]_vars

\* a call whose raw events are those of one event sequence drawn from Scripts
InitScripted ==
  /\ InitStream
  /\ parked = NoCall
  /\ mode = "scripted"
  /\ scenario \in Scripts
  /\ script = Wire(backend, scenario)

SpecScripted == InitScripted /\ [][Next]_vars

\* a scripted call and its caller: the generator steps only while a next()
\* is unanswered
NextPulled ==
  \/ Pull
  \/ Return
  \/ Cancel
  \/ PullOutstanding /\ BedrockTextDelta
  \/ PullOutstanding /\ BedrockToolUseStart
  \/ PullOutstanding /\ BedrockInputJsonDelta
  \/ PullOutstanding /\ BedrockContentBlockStop
  \/ PullOutstanding /\ BedrockOtherChunk
  \/ PullOutstanding /\ BedrockStreamEnd
  \/ PullOutstanding /\ BedrockStreamError
  \/ PullOutstanding /\ OpenAIRead
  \/ PullOutstanding /\ OpenAISkipLine
  \/ PullOutstanding /\ OpenAIBadLine
  \/ PullOutstanding /\ OpenAIDelta
  \/ PullOutstanding /\ OpenAIFinish
  \/ PullOutstanding /\ OpenAIFinishThrows
  \/ PullOutstanding /\ OpenAIReadDone
  \/ PullOutstanding /\ OpenAIReadError

SpecPulled == InitScripted /\ [][NextPulled]_vars

CallScripts ==
  {InterleavingScript, UnclosedAtEndScript, MalformedScript, GarbageScript}

\* two calls on one instance, both given the events of the same sequence
InitCalls ==
  /\ InitStream
  /\ mode = "scripted"
  /\ scenario \in CallScripts
  /\ script = Wire(backend, scenario)
  /\ parked = ThisCall

NextCalls == Switch \/ Next

SpecCalls == InitCalls /\ [][NextCalls]_vars

ByteEvents ==
  {EvText(<<"a">>), EvOpen(0), EvFrag(0, <<"{", "}">>), EvTerminal, EvDone,
   EvGarbage}

ByteScripts == SeqsUpTo(ByteEvents, MaxRecords) \cup {MalformedScript}

\* an OpenAI call whose body carries the records of one event sequence, the
\* transport cutting the body into reads anywhere
InitBytes ==
  /\ InitStream
  /\ parked = NoCall
  /\ backend = "openai"
  /\ mode = "bytes"
  /\ scenario \in ByteScripts
  /\ \E terminated \in BOOLEAN :
       script = BodyText(Wire(backend, scenario), terminated)

NextBytes ==
  \/ OpenAIReadBytes
  \/ OpenAISkipLine
  \/ OpenAIBadLine
  \/ OpenAIDelta
  \/ OpenAIFinish
  \/ OpenAIFinishThrows
  \/ OpenAIReadDone
  \/ OpenAIReadError
  \/ Cancel

SpecBytes == InitBytes /\ [][NextBytes]_vars

\* a generateContent, embedContent or generateContentStream call, with the
\* transport's answer and the backend's answer drawn
InitGenerate ==
  /\ backend \in {"bedrock", "openai"}
  /\ op \in {"generate", "embed", "stream"}
  /\ pc = op
  /\ mode = "free"
  /\ scenario = << >>
  /\ script = << >>
  /\ consumed = << >>
  /\ out = << >>
  /\ cancelled = FALSE
  /\ currentToolUse = NoToolUse
  /\ accumulatedInput = EmptyStr
  /\ accumulatedToolCalls = << >>
  /\ accumulatedContent = EmptyStr
  /\ lines = << >>
  /\ buffer = << >>
  /\ pulls = 0
  /\ released = 0
  /\ parked = NoCall
  /\ request \in [isJsonMode : BOOLEAN]
  /\ backendResponse \in
       IF op = "stream" THEN {NoResponse}
       ELSE IF op = "embed" THEN EmbeddingResponses
       ELSE IF backend = "bedrock" THEN BedrockResponses ELSE OpenAIResponses
  /\ result = NoResult
  /\ configuredUrl \in
       IF backend = "openai" THEN ConfiguredUrls ELSE {<< >>}
  /\ baseUrl = ConstructBaseUrl(configuredUrl)
  /\ fetches = 0
  /\ http \in HttpAnswers
  /\ contents = << >>
  /\ sent = << >>
  /\ config = NoConfig
  /\ backendRequest = NoBackendRequest

NextGenerate ==
  \/ BedrockGenerate
  \/ OpenAIGenerate
  \/ BedrockEmbed
  \/ OpenAIEmbedNotNative
  \/ OpenAIEmbed
  \/ BedrockStreamOpen
  \/ OpenAIStreamOpen

SpecGenerate == InitGenerate /\ [][NextGenerate]_vars

\* the request of a call is about to be built from a conversation drawn
InitTranslate ==
  /\ backend \in {"bedrock", "openai"}
  /\ op = "generate"
  /\ pc = "translate"
  /\ mode = "free"
  /\ scenario = << >>
  /\ script = << >>
  /\ consumed = << >>
  /\ out = << >>
  /\ cancelled = FALSE
  /\ currentToolUse = NoToolUse
  /\ accumulatedInput = EmptyStr
  /\ accumulatedToolCalls = << >>
  /\ accumulatedContent = EmptyStr
  /\ lines = << >>
  /\ buffer = << >>
  /\ pulls = 0
  /\ released = 0
  /\ parked = NoCall
  /\ request = NoRequest
  /\ backendResponse = NoResponse
  /\ result = NoResult
  /\ configuredUrl = << >>
  /\ baseUrl = ConstructBaseUrl(configuredUrl)
  /\ fetches = 0
  /\ http = OkAnswer
  /\ contents \in Conversations
  /\ sent = << >>
  /\ config = NoConfig
  /\ backendRequest = NoBackendRequest

NextTranslate == BedrockTranslate \/ OpenAITranslate

SpecTranslate == InitTranslate /\ [][NextTranslate]_vars

(***************************************************************************)
(* The options of the backend request: max tokens, temperature, system     *)
(* slot and tools, as generateContent and generateContentStream build      *)
(* them, and countTokens.                                                  *)
(***************************************************************************)
\* the fallback of max_tokens
DefaultMaxTokens == 8192

\* a systemInstruction: undefined, a string, or a Content whose parts are
\* flattened
Instruction(kind, text, parts) ==
  [kind |-> kind, text |-> text, parts |-> parts]

NoInstruction == Instruction(Undefined, EmptyStr, << >>)

\* a JSON schema object: its type ("" when it has none), whether it has a
\* properties map; defined is FALSE for an undefined schema
Schema(defined, type, hasProperties) ==
  [defined |-> defined, type |-> type, hasProperties |-> hasProperties]

NoSchema == Schema(FALSE, "", FALSE)

\* a FunctionDeclaration; name is EmptyStr when it has none
Declaration(name, parameters) == [name |-> name, parameters |-> parameters]

\* a Tool; isFunctionTool is FALSE when it has no functionDeclarations
Tool(isFunctionTool, functionDeclarations) ==
  [isFunctionTool |-> isFunctionTool,
   functionDeclarations |-> functionDeclarations]

\* a || rest on numbers: -1 stands for undefined, and 0 is falsy too
OrNumber(a, rest) == IF a = -1 \/ a = 0 THEN rest ELSE a

\* a ?? rest on numbers
Coalesce(a, rest) == IF a = -1 THEN rest ELSE a

\* the truthiness of a systemInstruction
Truthy(instruction) ==
  \/ instruction.kind = "content"
  \/ instruction.kind = "string" /\ instruction.text # EmptyStr

\* a || rest on instructions
OrInstruction(a, rest) == IF Truthy(a) THEN a ELSE rest

\* BedrockContentGenerator.convertSystemInstruction
ConvertSystemInstruction(instruction) ==
  IF instruction.kind = "string" THEN instruction.text
  ELSE JoinLines([p \in 1..Len(instruction.parts) |->
                    IF IsText(instruction.parts[p])
                    THEN instruction.parts[p].text ELSE EmptyStr])

\* the instruction added to the system prompt in JSON mode
JsonInstruction == <<"You are a JSON-only assistant.">>

\* `\nThe JSON must conform to this schema: ${JSON.stringify(schema)}`
SchemaInstruction(responseSchema) ==
  <<"\n", "The JSON must conform to this schema: ">>
    \o JSONStringify(responseSchema)

\* the system prompt generateContent of Bedrock builds; EmptyStr when the
\* request gets no system field
BedrockSystemPrompt(req) ==
  LET systemInstruction ==
        OrInstruction(req.configSystemInstruction,
                      OrInstruction(req.system_instruction,
                                    req.systemInstruction))
      systemPrompt == IF Truthy(systemInstruction)
                      THEN ConvertSystemInstruction(systemInstruction)
                      ELSE EmptyStr
      json == IF req.responseSchema # NoArgs
              THEN JsonInstruction \o SchemaInstruction(req.responseSchema)
              ELSE JsonInstruction
  IN IF req.responseMimeType = "application/json"
     THEN IF systemPrompt # EmptyStr
          THEN systemPrompt \o <<"\n", "\n">> \o json
          ELSE json
     ELSE systemPrompt

\* the system field generateContentStream of Bedrock builds
BedrockStreamSystem(req) ==
  LET systemInstruction ==
        OrInstruction(req.system_instruction, req.systemInstruction)
  IN IF Truthy(systemInstruction)
     THEN ConvertSystemInstruction(systemInstruction)
     ELSE EmptyStr

\* schema.type = 'object' and schema.properties = {} where they are missing
Defaulted(schema) ==
  Schema(TRUE, IF schema.type = "" THEN "object" ELSE schema.type, TRUE)

\* a declaration of the backend request
BackendTool(name, schema) == [name |-> name, schema |-> schema]

\* BedrockContentGenerator.convertToAnthropicTools: the declarations sent
ConvertToAnthropicTools(tools) ==
  Flatten([t \in 1..Len(tools) |->
     IF ~tools[t].isFunctionTool THEN << >>
     ELSE LET named == SelectSeq(tools[t].functionDeclarations,
                                 LAMBDA d : d.name # EmptyStr)
          IN [d \in 1..Len(named) |->
                BackendTool(named[d].name, Defaulted(named[d].parameters))]])

\* BedrockContentGenerator.convertToAnthropicTools: the tools of the caller
\* after it; a schema the declaration holds is written in place
ToolsAfterAnthropic(tools) ==
  [t \in 1..Len(tools) |->
     IF ~tools[t].isFunctionTool THEN tools[t]
     ELSE Tool(TRUE,
            [d \in 1..Len(tools[t].functionDeclarations) |->
               LET decl == tools[t].functionDeclarations[d] IN
               IF decl.name # EmptyStr /\ decl.parameters.defined
               THEN Declaration(decl.name, Defaulted(decl.parameters))
               ELSE decl])]

\* the loop over request.config.tools, then convertToOpenAITools
ConvertToOpenAITools(tools) ==
  LET allDeclarations ==
        Flatten([t \in 1..Len(tools) |->
                   IF tools[t].isFunctionTool
                   THEN tools[t].functionDeclarations ELSE << >>])
  IN [d \in 1..Len(allDeclarations) |->
        BackendTool(IF allDeclarations[d].name = EmptyStr
                    THEN <<"unknown_function">>
                    ELSE allDeclarations[d].name,
                    Schema(TRUE, allDeclarations[d].parameters.type,
                           allDeclarations[d].parameters.hasProperties))]

\* the options of a backend request; max_tokens and temperature are -1 and
\* system is EmptyStr when the request has no such field, tools is empty
\* when it has no tools
BackendRequest(max_tokens, temperature, system, tools, stream) ==
  [built |-> TRUE, max_tokens |-> max_tokens, temperature |-> temperature,
   system |-> system, tools |-> tools, stream |-> stream]

\* what building a request leaves alone
buildFrame ==
  <<backend, streamVars, backendResponse, result, op, configuredUrl, baseUrl,
    fetches, http, contents, config>>

\* the bedrockRequest of BedrockContentGenerator.generateContent
BedrockRequestOf(req) ==
  BackendRequest(
    OrNumber(req.configMaxOutputTokens,
             OrNumber(req.generation_config_max_output_tokens,
                      OrNumber(req.generationConfigMaxOutputTokens,
                               DefaultMaxTokens))),
    Coalesce(req.configTemperature,
             Coalesce(req.generation_config_temperature,
                      req.generationConfigTemperature)),
    BedrockSystemPrompt(req), ConvertToAnthropicTools(req.tools), FALSE)

\* the bedrockRequest of BedrockContentGenerator.generateContentStream
BedrockStreamRequestOf(req) ==
  BackendRequest(
    OrNumber(req.generation_config_max_output_tokens,
             OrNumber(req.generationConfigMaxOutputTokens, DefaultMaxTokens)),
    Coalesce(req.generation_config_temperature,
             req.generationConfigTemperature),
    BedrockStreamSystem(req), ConvertToAnthropicTools(req.tools), TRUE)

\* the openaiRequest of OpenAIContentGenerator.generateContent (stream
\* FALSE) and generateContentStream (stream TRUE)
OpenAIRequestOf(req, stream) ==
  BackendRequest(req.configMaxOutputTokens, req.configTemperature, EmptyStr,
                 ConvertToOpenAITools(req.configTools), stream)

\* BedrockContentGenerator.generateContent up to client.messages.create
BedrockBuildRequest ==
  /\ backend = "bedrock"
  /\ pc = "build"
  /\ op = "generate"
  /\ sent' = ConvertToAnthropicMessages(contents, << >>, << >>)
  /\ backendRequest' = BedrockRequestOf(request)
  /\ request' = [request EXCEPT !.tools = ToolsAfterAnthropic(request.tools)]
  /\ pc' = "built"
  /\ UNCHANGED buildFrame

\* BedrockContentGenerator.generateContentStream up to
\* client.messages.create
BedrockBuildStreamRequest ==
  /\ backend = "bedrock"
  /\ pc = "build"
  /\ op = "stream"
  /\ sent' = ConvertToAnthropicMessages(contents, << >>, << >>)
  /\ backendRequest' = BedrockStreamRequestOf(request)
  /\ request' = [request EXCEPT !.tools = ToolsAfterAnthropic(request.tools)]
  /\ pc' = "built"
  /\ UNCHANGED buildFrame

\* Math.ceil(totalChars / 4)
EstimatedTokens(totalChars) == (totalChars + 3) \div 4

RECURSIVE Sum(_)
Sum(numbers) ==
  IF numbers = << >> THEN 0 ELSE Head(numbers) + Sum(Tail(numbers))

\* the characters countTokens of Bedrock counts in one message
BedrockMessageChars(message) ==
  IF message.isString THEN Len(message.text)
  ELSE Sum([b \in 1..Len(message.blocks) |-> Len(message.blocks[b].text)])

\* BedrockContentGenerator.countTokens
BedrockCountTokens ==
  /\ backend = "bedrock"
  /\ pc = "build"
  /\ op = "countTokens"
  /\ sent' = ConvertToAnthropicMessages(contents, << >>, << >>)
  /\ result' =
       [Response(<< >>, NoFinish, NoUsage) EXCEPT
          !.totalTokens =
            EstimatedTokens(
              Sum([m \in 1..Len(sent') |-> BedrockMessageChars(sent'[m])]))]
  /\ pc' = "done"
  /\ UNCHANGED <<backend, streamVars, request, backendResponse, op,
                 configuredUrl, baseUrl, fetches, http, contents, config,
                 backendRequest>>

\* OpenAIContentGenerator.generateContent and generateContentStream up to
\* fetch: the two build the same request but for the stream flag
OpenAIBuildRequest ==
  /\ backend = "openai"
  /\ pc = "build"
  /\ op \in {"generate", "stream"}
  /\ sent' = ConvertToOpenAIMessages(contents, << >>, << >>)
  /\ backendRequest' = OpenAIRequestOf(request, op = "stream")
  /\ pc' = "built"
  /\ UNCHANGED <<buildFrame, request>>

\* messages.map(m => m.content || '').join(' ').length
OpenAITotalChars(messages) ==
  IF messages = << >> THEN 0
  ELSE Sum([m \in 1..Len(messages) |-> Len(messages[m].content)])
         + Len(messages) - 1

\* OpenAIContentGenerator.countTokens
OpenAICountTokens ==
  /\ backend = "openai"
  /\ pc = "build"
  /\ op = "countTokens"
  /\ sent' = ConvertToOpenAIMessages(contents, << >>, << >>)
  /\ result' =
       [Response(<< >>, NoFinish, NoUsage) EXCEPT
          !.totalTokens = EstimatedTokens(OpenAITotalChars(sent'))]
  /\ pc' = "done"
  /\ UNCHANGED <<backend, streamVars, request, backendResponse, op,
                 configuredUrl, baseUrl, fetches, http, contents, config,
                 backendRequest>>

\* where an option of the request may be set
Locations == {"config", "generation_config", "generationConfig"}

\* the value at one location when the option is set at loc
At(location, loc, value, unset) == IF location = loc THEN value ELSE unset

\* the declarations the tools of a request are made of
Declarations ==
  {Declaration(n, p) :
     n \in {<<"f">>, EmptyStr},
     p \in {NoSchema, Schema(TRUE, "", FALSE), Schema(TRUE, "object", FALSE),
            Schema(TRUE, "object", TRUE)}}

\* the tool lists of a request: none, one tool of one declaration, a tool of
\* two declarations, two tools, a tool that declares no functions
ToolLists ==
  {<< >>, <<Tool(FALSE, << >>)>>,
   <<Tool(TRUE, <<Declaration(<<"f">>, NoSchema),
                  Declaration(<<"g">>, Schema(TRUE, "object", TRUE))>>)>>,
   <<Tool(TRUE, <<Declaration(<<"f">>, Schema(TRUE, "", FALSE))>>),
     Tool(TRUE, <<Declaration(<<"g">>, NoSchema)>>)>>}
    \cup {<<Tool(TRUE, <<d>>)>> : d \in Declarations}

\* the instructions a request may carry
Instructions ==
  {Instruction("string", <<"s">>, << >>),
   Instruction("content", EmptyStr,
               <<TextPart(<<"s">>), TextPart(<<"t">>)>>)}

\* the requests a caller may pass: each option unset or set at one
\* location; the top-level system_instruction and systemInstruction stand
\* at the locations of generation_config and generationConfig
Requests ==
  {[configMaxOutputTokens |-> At("config", m.loc, m.v, -1),
    generation_config_max_output_tokens |->
      At("generation_config", m.loc, m.v, -1),
    generationConfigMaxOutputTokens |-> At("generationConfig", m.loc, m.v, -1),
    configTemperature |-> At("config", t.loc, t.v, -1),
    generation_config_temperature |-> At("generation_config", t.loc, t.v, -1),
    generationConfigTemperature |-> At("generationConfig", t.loc, t.v, -1),
    configSystemInstruction |-> At("config", i.loc, i.v, NoInstruction),
    system_instruction |-> At("generation_config", i.loc, i.v, NoInstruction),
    systemInstruction |-> At("generationConfig", i.loc, i.v, NoInstruction),
    responseMimeType |-> j.mime,
    responseSchema |-> j.schema,
    tools |-> At("top", tl.loc, tl.v, << >>),
    configTools |-> At("config", tl.loc, tl.v, << >>)] :
     m \in {[loc |-> "none", v |-> -1]}
             \cup [loc : Locations, v : {7}],
     t \in {[loc |-> "none", v |-> -1], [loc |-> "config", v |-> 0],
            [loc |-> "config", v |-> 1], [loc |-> "generation_config", v |-> 1],
            [loc |-> "generationConfig", v |-> 0]},
     i \in {[loc |-> "none", v |-> NoInstruction]}
             \cup [loc : Locations, v : Instructions],
     j \in {[mime |-> "", schema |-> NoArgs],
            [mime |-> "application/json", schema |-> NoArgs],
            [mime |-> "application/json",
             schema |-> JObj(<<"x">> :> JNum(1))]},
     tl \in [loc : {"top", "config"}, v : ToolLists]}

\* the conversations of these requests: text of the user, with or without
\* an entry whose role is system, and two turns of two text parts each
RequestConversations ==
  {<<Content("user", <<TextPart(<<"a">>)>>)>>,
   <<Content("user", <<TextPart(<<"a">>), TextPart(<<"b">>)>>),
     Content("model", <<TextPart(<<"a">>), TextPart(<<"b">>)>>)>>,
   <<Content("system", <<TextPart(<<"c">>)>>),
     Content("user", <<TextPart(<<"a">>), TextPart(<<"b">>)>>)>>}

\* generateContent, generateContentStream or countTokens is called with a
\* request drawn
InitRequest ==
  /\ backend \in {"bedrock", "openai"}
  /\ op \in {"generate", "stream", "countTokens"}
  /\ pc = "build"
  /\ mode = "free"
  /\ scenario = << >>
  /\ script = << >>
  /\ consumed = << >>
  /\ out = << >>
  /\ cancelled = FALSE
  /\ currentToolUse = NoToolUse
  /\ accumulatedInput = EmptyStr
  /\ accumulatedToolCalls = << >>
  /\ accumulatedContent = EmptyStr
  /\ lines = << >>
  /\ buffer = << >>
  /\ pulls = 0
  /\ released = 0
  /\ parked = NoCall
  /\ request \in Requests
  /\ backendResponse = NoResponse
  /\ result = NoResult
  /\ configuredUrl = << >>
  /\ baseUrl = ConstructBaseUrl(configuredUrl)
  /\ fetches = 0
  /\ http = OkAnswer
  /\ contents \in RequestConversations
  /\ sent = << >>
  /\ config = NoConfig
  /\ backendRequest = NoBackendRequest

NextRequest ==
  \/ BedrockBuildRequest
  \/ BedrockBuildStreamRequest
  \/ BedrockCountTokens
  \/ OpenAIBuildRequest
  \/ OpenAICountTokens

SpecRequest == InitRequest /\ [][NextRequest]_vars

(***************************************************************************)
(* createContentGenerator, the dispatcher.                                 *)
(***************************************************************************)
\* enum AuthType: the identifiers the dispatcher knows
AuthType == {"aws-bedrock"}

\* a dispatcher that takes every identifier for the Bedrock one
SelectsAny(authType) == TRUE

\* config.authType === AuthType.USE_AWS_BEDROCK
SelectsBedrock(authType) == authType = "aws-bedrock"

\* the generator class the dispatcher constructs for an identifier
GeneratorOf(authType) ==
  IF authType = "aws-bedrock" THEN "bedrock" ELSE "none"

\* the identifiers a caller may pass: those of the enum, those of the
\* generators of other providers, and none
AuthTypeValues ==
  {"aws-bedrock", "openai", "gemini-api-key", "oauth-personal", "deepseek",
   "vertex-ai", Undefined}

\* the configurations a caller may pass
Configs ==
  [authType : AuthTypeValues, apiKey : {Undefined, "k1", "k2"},
   model : {"m", "gpt-4"}]

\* config.authType === AuthType.USE_AWS_BEDROCK: new BedrockContentGenerator
CreateBedrock ==
  /\ pc = "create"
  /\ SelectsBedrock(config.authType)
  /\ backend' = GeneratorOf(config.authType)
  /\ pc' = "created"
  /\ UNCHANGED <<streamVars, genVars>>

\* every other authType: throw new Error('Error creating contentGenerator:
\* Unsupported authType: ...')
CreateUnsupported ==
  /\ pc = "create"
  /\ ~SelectsBedrock(config.authType)
  /\ result' = Failure("Unsupported authType")
  /\ pc' = "failed"
  /\ UNCHANGED <<backend, streamVars, request, backendResponse, op,
                 configuredUrl, baseUrl, fetches, http, contents, sent,
                 config, backendRequest>>

\* a ?? rest on strings: only undefined gives way
OrStringKeepsEmpty(a, rest) == IF a = Undefined THEN rest ELSE a

\* a || rest on strings: undefined and '' are falsy
OrString(a, rest) == IF a = Undefined \/ a = "" THEN rest ELSE a

DEFAULT_BEDROCK_MODEL == "us.anthropic.claude-3-7-sonnet-20250219-v1:0"

\* getDefaultBedrockModel, in an environment whose ANTHROPIC_MODEL is env
GetDefaultBedrockModel(env) == OrString(env, DEFAULT_BEDROCK_MODEL)

\* the arguments of createContentGeneratorConfig and the ANTHROPIC_MODEL
\* of the environment it runs in
ConfigArguments ==
  [model : {Undefined, "", "m"}, authType : AuthTypeValues,
   envModel : {Undefined, "", "e"}]

\* createContentGeneratorConfig
CreateConfig ==
  /\ pc = "config"
  /\ config' =
       [model |-> OrString(request.envModel,
                           OrString(request.model,
                                    GetDefaultBedrockModel(request.envModel))),
        authType |-> request.authType, apiKey |-> Undefined]
  /\ pc' = "created"
  /\ UNCHANGED <<backend, streamVars, request, backendResponse, result, op,
                 configuredUrl, baseUrl, fetches, http, contents, sent,
                 backendRequest>>

\* createContentGenerator is called with a configuration drawn, in an
\* environment whose OPENAI_BASE_URL is drawn, or
\* createContentGeneratorConfig is called with arguments drawn
InitCreate ==
  /\ backend = "none"
  /\ op \in {"create", "config"}
  /\ pc = op
  /\ mode = "free"
  /\ scenario = << >>
  /\ script = << >>
  /\ consumed = << >>
  /\ out = << >>
  /\ cancelled = FALSE
  /\ currentToolUse = NoToolUse
  /\ accumulatedInput = EmptyStr
  /\ accumulatedToolCalls = << >>
  /\ accumulatedContent = EmptyStr
  /\ lines = << >>
  /\ buffer = << >>
  /\ pulls = 0
  /\ released = 0
  /\ parked = NoCall
  /\ request \in IF op = "config" THEN ConfigArguments ELSE {NoRequest}
  /\ backendResponse = NoResponse
  /\ result = NoResult
  /\ configuredUrl \in IF op = "config" THEN {<< >>} ELSE ConfiguredUrls
  /\ baseUrl = << >>
  /\ fetches = 0
  /\ http = OkAnswer
  /\ contents = << >>
  /\ sent = << >>
  /\ config \in IF op = "config" THEN {NoConfig} ELSE Configs
  /\ backendRequest = NoBackendRequest

NextCreate == CreateBedrock \/ CreateUnsupported \/ CreateConfig

SpecCreate == InitCreate /\ [][NextCreate]_vars

(***************************************************************************)
(* What the caller has been given, and what the backend has sent.          *)
(***************************************************************************)
RECURSIVE AllParts(_)
\* the parts of all fragments, in emission order
AllParts(fragments) ==
  IF fragments = << >> THEN << >>
  ELSE Head(fragments).parts \o AllParts(Tail(fragments))

ToolCallParts(fragments) == SelectSeq(AllParts(fragments), IsFunctionCall)

\* a tool call as the caller sees it, without its id
Call(name, args) == [name |-> name, args |-> args]

\* the tool calls handed to the caller, in order
Calls(fragments) ==
  [p \in 1..Len(ToolCallParts(fragments)) |->
     Call(ToolCallParts(fragments)[p].name, ToolCallParts(fragments)[p].args)]

\* the parts handed to the caller, in order, without the ids
PartsSeen(fragments) ==
  [p \in 1..Len(AllParts(fragments)) |->
     [kind |-> AllParts(fragments)[p].kind,
      text |-> AllParts(fragments)[p].text,
      name |-> AllParts(fragments)[p].name,
      args |-> AllParts(fragments)[p].args]]

RECURSIVE Concat(_)
Concat(texts) ==
  IF texts = << >> THEN EmptyStr ELSE Head(texts) \o Concat(Tail(texts))

\* the text handed to the caller: all text parts, concatenated
TextOut(fragments) ==
  LET texts == SelectSeq(AllParts(fragments), IsText) IN
  Concat([p \in 1..Len(texts) |-> texts[p].text])

\* the text deltas of the raw events processed, concatenated
TextIn ==
  Concat([p \in 1..Len(consumed) |->
            IF backend = "bedrock"
            THEN IF consumed[p].dtype = "text_delta"
                 THEN consumed[p].text ELSE EmptyStr
            ELSE consumed[p].content])

\* the raw event is a terminal event
IsTerminal(event) ==
  IF backend = "bedrock" THEN event.type = "message_stop"
  ELSE event.kind = "data" /\ event.finish_reason # Null

HasTerminal == \E p \in 1..Len(consumed) : IsTerminal(consumed[p])

\* the fragments that carry a finishReason
WithFinish(fragments) ==
  {p \in 1..Len(fragments) : fragments[p].finishReason # NoFinish}

\* the argument fragments of a drawn event sequence, concatenated
FragText(events) ==
  Concat([p \in 1..Len(events) |->
            IF events[p].k = "frag" THEN events[p].text ELSE EmptyStr])

(***************************************************************************)
(* C1: round trip of tool arguments.  For every object drawn and every     *)
(* split of its serialized text into the argument fragments of one tool    *)
(* block (open, fragments, close, terminal), a call that completes hands   *)
(* the caller exactly one tool call, and its arguments equal the object.   *)
(***************************************************************************)
C1_RoundTrip ==
  (pc = "done" /\ scenario \in RoundTripScripts) =>
    \A obj \in RoundTripObjects :
      JSONStringify(obj) = FragText(scenario) =>
        Calls(out) = <<Call(ToolName(0), obj)>>

\* a completed Bedrock call whose object {"x":{}} came in three fragments
C1_Witness ==
  /\ pc = "done"
  /\ backend = "bedrock"
  /\ scenario \in RoundTripScripts
  /\ Len(scenario) = 6
  /\ FragText(scenario) = JSONStringify(JObj(<<"x">> :> EmptyObject))
  /\ Calls(out) = <<Call(ToolName(0), JObj(<<"x">> :> EmptyObject))>>

(***************************************************************************)
(* C2: interleaving safety.  The sequence text a, open, first half of      *)
(* {"x":1}, text b, second half, close, terminal yields the parts text a,  *)
(* text b, tool call {x:1} and nothing else, and the last fragment carries *)
(* finishReason STOP.                                                      *)
(***************************************************************************)
C2_Interleaving ==
  (pc = "done" /\ scenario = InterleavingScript) =>
    /\ PartsSeen(out) =
         PartsSeen(<<Fragment(<<TextPart(<<"a">>), TextPart(<<"b">>),
                       FunctionCallPart(EmptyStr, ToolName(0),
                                        JObj(<<"x">> :> JNum(1)))>>,
                     NoFinish)>>)
    /\ out # << >>
    /\ out[Len(out)].finishReason = "STOP"

(***************************************************************************)
(* C3: in a completed call whose raw events hold a terminal event, exactly *)
(* one fragment carries a finishReason.                                    *)
(***************************************************************************)
C3_ExactlyOneFinish ==
  (pc = "done" /\ HasTerminal) => Cardinality(WithFinish(out)) = 1

(***************************************************************************)
(* C4: a call that processed raw events and ended without an error has a   *)
(* last fragment, and it carries a finishReason of the unified taxonomy.   *)
(***************************************************************************)
C4_LastCarriesFinish ==
  (pc = "done" /\ consumed # << >>) =>
    /\ out # << >>
    /\ out[Len(out)].finishReason \in FinishReasons

(***************************************************************************)
(* C5: unclosed block at terminal.  A tool block that is opened, receives  *)
(* the argument text {} and is not closed before the terminal event, or    *)
(* before the end of the stream, still yields one tool call with empty     *)
(* object arguments.                                                       *)
(***************************************************************************)
C5_UnclosedFinalized ==
  (pc = "done" /\ scenario \in {UnclosedScript, UnclosedAtEndScript}) =>
    Calls(out) = <<Call(ToolName(0), EmptyObject)>>

(***************************************************************************)
(* C6: a malformed tool call is recovered locally.  When the arguments of  *)
(* the first tool call do not parse and those of the second do, the call   *)
(* that completes hands the caller the second tool call (and only it).     *)
(***************************************************************************)
C6_MalformedDroppedAlone ==
  (pc = "done" /\ scenario = MalformedScript) =>
    Calls(out) = <<Call(ToolName(1), EmptyObject)>>

(***************************************************************************)
(* C8: index scoping.  In a completed call in which every index was opened *)
(* at most once, each tool call handed to the caller carries the id and    *)
(* the name given at the block-open of one index, and its arguments are    *)
(* the parse of the concatenation of the fragments of that index.          *)
(***************************************************************************)
\* the tool-call deltas of the raw events processed, in arrival order, each
\* as [index, id, name, arguments]
DeltasIn ==
  IF backend = "bedrock"
  THEN [p \in 1..Len(consumed) |->
          ToolCallDelta(consumed[p].index, consumed[p].id, consumed[p].name,
                        consumed[p].input)]
  ELSE Concat([p \in 1..Len(consumed) |-> consumed[p].tool_calls])

\* the block-opens of index among the raw events processed
OpensOf(index) ==
  {p \in 1..Len(DeltasIn) :
     DeltasIn[p].index = index /\ DeltasIn[p].name # EmptyStr}

\* the argument text sent for index: its fragments, concatenated
OwnArguments(index) ==
  Concat([p \in 1..Len(DeltasIn) |->
            IF DeltasIn[p].index = index THEN DeltasIn[p].arguments
            ELSE EmptyStr])

\* the parse of the argument text of index, {} when there is none
OwnParse(index) ==
  IF OwnArguments(index) = EmptyStr THEN POk(EmptyObject, 0)
  ELSE JSONParse(OwnArguments(index))

C8_IndexScoping ==
  (pc = "done" /\ \A i \in Indices : Cardinality(OpensOf(i)) <= 1) =>
    \A p \in 1..Len(ToolCallParts(out)) :
      \E i \in Indices :
        /\ OpensOf(i) # {}
        /\ ToolCallParts(out)[p].id = ToolId(i)
        /\ ToolCallParts(out)[p].name = ToolName(i)
        /\ OwnParse(i).ok
        /\ ToolCallParts(out)[p].args = OwnParse(i).v

\* the same for the names and arguments alone, when two tool blocks are open
\* at the same time and their fragments alternate
C8_AlternatingScoped ==
  (pc = "done" /\ scenario = AlternatingScript) =>
    Calls(out) = <<Call(ToolName(0), JObj(<<"x">> :> JNum(1))),
                   Call(ToolName(1), EmptyObject)>>

(***************************************************************************)
(* C9: cancellation.  Once the caller has triggered cancellation after one *)
(* text fragment was delivered and while a tool block is open, no further  *)
(* raw event is processed and no further fragment is emitted.              *)
(***************************************************************************)
\* a tool block is open and not yet handed to the caller
ToolOpen ==
  IF backend = "bedrock" THEN currentToolUse.name # EmptyStr
  ELSE accumulatedToolCalls # << >>

OneTextDelivered ==
  /\ Len(out) = 1
  /\ Len(out[1].parts) = 1
  /\ out[1].parts[1].kind = "text"

C9_Cancellation ==
  [][(cancelled /\ ToolOpen /\ OneTextDelivered) =>
       (consumed' = consumed /\ out' = out)]_vars

(***************************************************************************)
(* C10: monotonically appendable output.  In a completed call the text     *)
(* parts of all fragments, concatenated in emission order, are the text    *)
(* deltas received, concatenated: no delta is delivered twice.             *)
(***************************************************************************)
C10_TextDeliveredOnce == pc = "done" => TextOut(out) = TextIn

(***************************************************************************)
(* C7: every tool call handed to the caller, by generateContent and by     *)
(* generateContentStream of either backend, has a non-empty name and       *)
(* arguments that are a parsed JSON object.                                *)
(***************************************************************************)
WellFormedCall(part) ==
  IsFunctionCall(part) => (part.name # EmptyStr /\ part.args.t = "obj")

C7_ToolCallsWellFormed ==
  /\ \A p \in 1..Len(AllParts(out)) : WellFormedCall(AllParts(out)[p])
  /\ \A p \in 1..Len(result.parts) : WellFormedCall(result.parts[p])

(***************************************************************************)
(* C11: text deltas are forwarded without buffering and in order.  The     *)
(* step that takes a non-empty text delta appends to the output, before    *)
(* any later raw event is taken, a fragment whose parts are exactly that   *)
(* text; the fragments of the deltas appear in the order of the deltas, so *)
(* a stream of text deltas and a terminal event yields at least one        *)
(* fragment per delta.                                                     *)
(***************************************************************************)
\* the text a raw event delivers, EmptyStr when it delivers none
DeltaText(event) ==
  IF backend = "bedrock"
  THEN IF event.dtype = "text_delta" THEN event.text ELSE EmptyStr
  ELSE event.content

\* the non-empty text deltas of the raw events processed, in arrival order
DeltaTexts ==
  LET deltas == SelectSeq(consumed, LAMBDA e : DeltaText(e) # EmptyStr) IN
  [p \in 1..Len(deltas) |-> DeltaText(deltas[p])]

\* the texts of the fragments that consist of one text part, in order
FragmentTexts ==
  LET single == SelectSeq(out, LAMBDA f : Len(f.parts) = 1
                                           /\ IsText(f.parts[1])) IN
  [p \in 1..Len(single) |-> single[p].parts[1].text]

RECURSIVE IsSubsequence(_, _)
\* the elements of small occur in big, in the same order
IsSubsequence(small, big) ==
  IF small = << >> THEN TRUE
  ELSE IF big = << >> THEN FALSE
  ELSE IF Head(small) = Head(big) THEN IsSubsequence(Tail(small), Tail(big))
  ELSE IsSubsequence(small, Tail(big))

\* this step takes a raw event that delivers text
TakesTextDelta ==
  /\ Len(consumed') = Len(consumed) + 1
  /\ DeltaText(consumed'[Len(consumed')]) # EmptyStr

\* this step appends, first, the fragment of the delta it takes
ForwardsTextDelta ==
  /\ Len(out') > Len(out)
  /\ SubSeq(out', 1, Len(out)) = out
  /\ out'[Len(out) + 1].parts =
       <<TextPart(DeltaText(consumed'[Len(consumed')]))>>

C11_TextForwarded ==
  /\ [](IsSubsequence(DeltaTexts, FragmentTexts))
  /\ [][TakesTextDelta => ForwardsTextDelta]_vars

\* a completed OpenAI call of two text deltas and the terminal event, with
\* the two text fragments delivered in order
C11_Witness ==
  /\ pc = "done"
  /\ backend = "openai"
  /\ DeltaTexts = <<<<"a">>, <<"b">>>>
  /\ scenario = <<EvText(<<"a">>), EvText(<<"b">>), EvTerminal>>
  /\ script = << >>
  /\ FragmentTexts = <<<<"a">>, <<"b">>>>

(***************************************************************************)
(* C12: errors in the middle of a stream are never silent.  Once a raw     *)
(* record that cannot be decoded has been taken, the call has failed: it   *)
(* neither carries on with the next record nor completes normally.         *)
(***************************************************************************)
\* a record that could not be decoded is among the raw events processed
HasUndecodable ==
  /\ backend = "openai"
  /\ \E p \in 1..Len(consumed) : consumed[p].kind = "bad"

C12_ErrorsNotSilent == HasUndecodable => pc = "failed"

(***************************************************************************)
(* C13: JSON-mode contract of generateContent.  When JSON mode is          *)
(* requested, a response is returned only if the text the backend sent     *)
(* parses as JSON: every non-empty text part of a returned response is     *)
(* JSON text.                                                              *)
(***************************************************************************)
\* the non-empty text parts of the response returned
ResultTexts ==
  {result.parts[p].text :
     p \in {q \in 1..Len(result.parts) :
              IsText(result.parts[q]) /\ result.parts[q].text # EmptyStr}}

C13_JsonModeContract ==
  (pc = "done" /\ request.isJsonMode /\ result.status = "ok") =>
    \A text \in ResultTexts : JSONParse(text).ok

(***************************************************************************)
(* C14: unsupported capability.  An embedContent call on the Bedrock       *)
(* generator, or on an OpenAI generator constructed with a base URL that   *)
(* is not the native one, fails with the error that says embeddings are    *)
(* not supported, and no transport request was issued.                     *)
(***************************************************************************)
\* the URL given to the constructor names the native OpenAI endpoint
ConfiguredNative ==
  configuredUrl \in {<< >>, OPENAI_BASE_URL, OPENAI_BASE_URL \o <<"/">>}

\* the generator of this call has no embedding support
LacksEmbeddings == backend = "bedrock" \/ ~ConfiguredNative

\* the messages of the errors that say embeddings are not supported
UnsupportedErrors ==
  {"Embeddings are not supported with AWS Bedrock Claude models",
   "This OpenAI-compatible API endpoint may not support embeddings"}

C14_UnsupportedCapability ==
  (op = "embed" /\ pc # "embed" /\ LacksEmbeddings) =>
    /\ pc = "failed"
    /\ result.error \in UnsupportedErrors
    /\ fetches = 0

\* an embedContent call on an OpenAI generator with a custom endpoint has
\* failed
C14_Witness ==
  /\ op = "embed"
  /\ pc = "failed"
  /\ backend = "openai"
  /\ ~ConfiguredNative
  /\ result.error \in UnsupportedErrors
  /\ fetches = 0

(***************************************************************************)
(* C15: finish-reason totality.  For every finish_reason string of an      *)
(* answer, known or unknown, the finishReason of the response is exactly   *)
(* one of STOP, MAX_TOKENS, SAFETY, OTHER: stop and tool_calls give STOP,  *)
(* length gives MAX_TOKENS, content_filter gives SAFETY, every other       *)
(* string gives OTHER.                                                     *)
(***************************************************************************)
\* an OpenAI generateContent call has returned a response
OpenAIGenerated ==
  backend = "openai" /\ op = "generate" /\ pc = "done"

C15_FinishReasonTotal ==
  OpenAIGenerated =>
    LET code == backendResponse.choices[1].finish_reason
        mapped == result.finishReason
    IN /\ mapped \in FinishReasons
       /\ code \in {"stop", "tool_calls"} => mapped = "STOP"
       /\ code = "length" => mapped = "MAX_TOKENS"
       /\ code = "content_filter" => mapped = "SAFETY"
       /\ code \notin {"stop", "tool_calls", "length", "content_filter"}
            => mapped = "OTHER"

\* a response to an answer with tool calls and finish_reason tool_calls
C15_Witness ==
  /\ OpenAIGenerated
  /\ backendResponse.choices[1].finish_reason = "tool_calls"
  /\ Len(backendResponse.choices[1].tool_calls) > 0
  /\ result.finishReason = "STOP"

(***************************************************************************)
(* C16: every response generateContent returns, on either backend, with or *)
(* without tool calls, carries a finishReason of the unified taxonomy.     *)
(***************************************************************************)
C16_GenerateFinishReason ==
  (op = "generate" /\ pc = "done") => result.finishReason \in FinishReasons

(***************************************************************************)
(* C17: tool-result linkage by call id.  When every call and every result  *)
(* of the conversation carries an id and each result follows the call of   *)
(* its id, each tool-result of the backend request references the id of a  *)
(* tool-call that occurs earlier in the request.                           *)
(***************************************************************************)
\* the function calls and function responses of the conversation, in order
Exchanges ==
  SelectSeq(Flatten([p \in 1..Len(contents) |-> contents[p].parts]),
            LAMBDA part : IsFunctionCall(part) \/ IsFunctionResponse(part))

\* every call and result carries an id, and each result follows its call
Linked(exchanges) ==
  \A q \in 1..Len(exchanges) :
    /\ exchanges[q].id # EmptyStr
    /\ IsFunctionResponse(exchanges[q]) =>
         \E p \in 1..(q - 1) : /\ IsFunctionCall(exchanges[p])
                               /\ exchanges[p].id = exchanges[q].id
                               /\ exchanges[p].name = exchanges[q].name

\* the tool calls and tool results of one message of the request, in order,
\* as functionCall and functionResponse parts with the ids sent
SentExchangesOf(message) ==
  IF backend = "bedrock"
  THEN LET blocks == SelectSeq(message.blocks,
                               LAMBDA b : b.type \in {"tool_use",
                                                      "tool_result"})
       IN [p \in 1..Len(blocks) |->
             IF blocks[p].type = "tool_use"
             THEN FunctionCallPart(blocks[p].id, blocks[p].name, NoArgs)
             ELSE FunctionResponsePart(blocks[p].tool_use_id, EmptyStr,
                                       NoArgs)]
  ELSE IF message.role = "tool"
  THEN <<FunctionResponsePart(message.tool_call_id, EmptyStr, NoArgs)>>
  ELSE [p \in 1..Len(message.tool_calls) |->
          FunctionCallPart(message.tool_calls[p].id,
                           message.tool_calls[p].name, NoArgs)]

SentExchanges ==
  Flatten([p \in 1..Len(sent) |-> SentExchangesOf(sent[p])])

\* each tool result sent references the id of a tool call sent before it
SentLinked ==
  \A q \in 1..Len(SentExchanges) :
    IsFunctionResponse(SentExchanges[q]) =>
      \E p \in 1..(q - 1) : /\ IsFunctionCall(SentExchanges[p])
                            /\ SentExchanges[p].id = SentExchanges[q].id

C17_ToolResultLinkage ==
  (pc = "translated" /\ Linked(Exchanges)) =>
    /\ SentLinked
    /\ Len(SentExchanges) = Len(Exchanges)

(***************************************************************************)
(* C18: the tool-call ids the adapter synthesizes are pairwise distinct:   *)
(* no two tool calls of one request carry the same synthesized id.         *)
(***************************************************************************)
\* positions of the tool calls sent whose id the adapter made
Synthesized ==
  {p \in 1..Len(SentExchanges) :
     /\ IsFunctionCall(SentExchanges[p])
     /\ Head(SentExchanges[p].id) = "call_"}

C18_SynthesizedIdsDistinct ==
  pc = "translated" =>
    \A p \in Synthesized, q \in Synthesized :
      p # q => SentExchanges[p].id # SentExchanges[q].id

(***************************************************************************)
(* C19: empty response.  When the backend's answer holds zero choices      *)
(* (OpenAI) or zero content blocks (Bedrock), generateContent fails and    *)
(* returns no response.                                                    *)
(***************************************************************************)
\* the transport succeeded and the answer of the backend is empty
EmptyAnswer ==
  /\ http.ok
  /\ IF backend = "bedrock" THEN backendResponse.content = << >>
     ELSE backendResponse.choices = << >>

C19_EmptyResponseFails ==
  (op = "generate" /\ pc \in {"done", "failed"} /\ EmptyAnswer) =>
    pc = "failed" /\ result.status = "error"

(***************************************************************************)
(* C20: transport failures are mapped uniformly.  When the transport       *)
(* answers a request of the OpenAI generator with a status that is not OK, *)
(* the call (generateContent, generateContentStream or embedContent) fails *)
(* with the same error, which carries the numeric status and the raw body  *)
(* text, and no response and no fragment is produced.                      *)
(***************************************************************************)
\* the transport has answered the request of this OpenAI call with a failure
TransportFailed ==
  backend = "openai" /\ fetches > 0 /\ ~http.ok

C22_BothFamiliesReachable ==
  (op = "create" /\ pc # "create") =>
    /\ (config.authType = "openai" /\ config.apiKey # Undefined)
         => (pc = "created" /\ backend = "openai")
    /\ config.authType = "aws-bedrock"
         => (pc = "created" /\ backend = "bedrock")

(***************************************************************************)
(* C29: non-streaming response translation preserves order.  The parts of  *)
(* a response returned by generateContent are, in the order of the blocks  *)
(* of the backend's answer, one text part per block that carries text and  *)
(* one function call part per named tool invocation, with the name of the  *)
(* block and its parsed arguments (parts of empty text are not counted);   *)
(* an argument string that does not parse makes generateContent fail.      *)
(***************************************************************************)
\* what a part says, apart from the id of a call
Shape(part) ==
  [kind |-> part.kind, text |-> part.text, name |-> part.name,
   args |-> part.args]

CarriesSomething(part) == ~(IsText(part) /\ part.text = EmptyStr)

Shapes(parts) ==
  LET kept == SelectSeq(parts, CarriesSomething)
  IN  [p \in 1..Len(kept) |-> Shape(kept[p])]

\* a Bedrock block that carries text or names a tool
CarriesBlock(block) ==
  \/ block.type = "text" /\ block.text # EmptyStr
  \/ block.type = "tool_use" /\ block.name # EmptyStr

\* the blocks of the backend's answer, in their order, as shapes
BlockShapes ==
  IF backend = "bedrock"
  THEN LET kept == SelectSeq(backendResponse.content, CarriesBlock)
       IN  [p \in 1..Len(kept) |->
              IF kept[p].type = "text"
              THEN Shape(TextPart(kept[p].text))
              ELSE Shape(FunctionCallPart(
                           EmptyStr, kept[p].name,
                           IF kept[p].input = NoArgs THEN EmptyObject
                           ELSE kept[p].input))]
  ELSE LET choice == backendResponse.choices[1]
       IN  (IF choice.content = EmptyStr THEN << >>
            ELSE <<Shape(TextPart(choice.content))>>)
           \o [p \in 1..Len(choice.tool_calls) |->
                 Shape(FunctionCallPart(
                         EmptyStr, choice.tool_calls[p].name,
                         ParseArguments(choice.tool_calls[p].arguments).v))]

\* some argument string of the OpenAI answer is not JSON
ArgumentsUnparsable ==
  /\ backend = "openai"
  /\ backendResponse.choices # << >>
  /\ \E p \in 1..Len(backendResponse.choices[1].tool_calls) :
       ~ParseArguments(backendResponse.choices[1].tool_calls[p].arguments).ok

C30_UsageAlwaysPresent ==
  (op = "generate" /\ pc = "done") =>
    /\ result.usage # NoUsage
    /\ result.usage.promptTokenCount >= 0
    /\ result.usage.candidatesTokenCount >= 0
    /\ result.usage.totalTokenCount
         = result.usage.promptTokenCount + result.usage.candidatesTokenCount

(***************************************************************************)
(* C28: text merging in request translation.  Within one message,          *)
(* consecutive text parts are merged into a single backend text block,     *)
(* while every function call part and every function response part         *)
(* becomes a block of its own, in the original order: the kinds of the     *)
(* blocks sent are the kinds of the parts with each run of text parts      *)
(* counted once.                                                           *)
(***************************************************************************)
RECURSIVE MergedKinds(_)
\* the kinds of the parts of one Content, a run of text parts counted once
MergedKinds(parts) ==
  IF parts = << >> THEN << >>
  ELSE IF Len(parts) > 1 /\ IsText(parts[1]) /\ IsText(parts[2])
  THEN MergedKinds(Tail(parts))
  ELSE <<parts[1].kind>> \o MergedKinds(Tail(parts))

\* the kinds of the parts of the conversation, merged message by message
ExpectedKinds ==
  Flatten([c \in 1..Len(contents) |-> MergedKinds(contents[c].parts)])

\* the kinds of the blocks of one message of the backend request
SentKindsOf(message) ==
  IF backend = "bedrock"
  THEN IF message.isString THEN <<"text">>
       ELSE [b \in 1..Len(message.blocks) |->
               CASE message.blocks[b].type = "text" -> "text"
                 [] message.blocks[b].type = "tool_use" -> "functionCall"
                 [] OTHER -> "functionResponse"]
  ELSE IF message.role = "tool" THEN <<"functionResponse">>
  ELSE (IF message.hasContent THEN <<"text">> ELSE << >>)
       \o [c \in 1..Len(message.tool_calls) |-> "functionCall"]

SentKinds == Flatten([m \in 1..Len(sent) |-> SentKindsOf(sent[m])])

C28_TextMerged == pc = "translated" => SentKinds = ExpectedKinds

(***************************************************************************)
(* What the caller asked for in a request, whatever the location.          *)
(***************************************************************************)
FirstSet(a, b, c) == IF a # -1 THEN a ELSE IF b # -1 THEN b ELSE c

RequestedMaxTokens ==
  FirstSet(request.configMaxOutputTokens,
           request.generation_config_max_output_tokens,
           request.generationConfigMaxOutputTokens)

RequestedTemperature ==
  FirstSet(request.configTemperature, request.generation_config_temperature,
           request.generationConfigTemperature)

RequestedInstruction ==
  IF request.configSystemInstruction # NoInstruction
  THEN request.configSystemInstruction
  ELSE IF request.system_instruction # NoInstruction
  THEN request.system_instruction
  ELSE request.systemInstruction

\* the instruction of the caller as one string; EmptyStr when there is none
RequestedSystem ==
  IF RequestedInstruction = NoInstruction THEN EmptyStr
  ELSE IF RequestedInstruction.kind = "string" THEN RequestedInstruction.text
  ELSE JoinLines([p \in 1..Len(RequestedInstruction.parts) |->
                    RequestedInstruction.parts[p].text])

RequestedTools == request.tools \o request.configTools

\* a backend request of generateContent or generateContentStream was built
RequestBuilt == pc = "built" /\ op \in {"generate", "stream"}

IsPrefix(small, big) ==
  Len(small) <= Len(big) /\ SubSeq(big, 1, Len(small)) = small

IsSuffix(small, big) ==
  /\ Len(small) <= Len(big)
  /\ SubSeq(big, Len(big) - Len(small) + 1, Len(big)) = small

(***************************************************************************)
(* C23: max output tokens and temperature resolution.  In the backend      *)
(* request of generateContent and of generateContentStream, max_tokens is  *)
(* the request's maxOutputTokens when it is set and 8192 when it is not,   *)
(* and temperature is absent when the request sets none and is the         *)
(* request's temperature, 0 included, when it sets one.                    *)
(***************************************************************************)
C23_MaxTokensAndTemperature ==
  RequestBuilt =>
    /\ backendRequest.max_tokens =
         (IF RequestedMaxTokens # -1 THEN RequestedMaxTokens
          ELSE DefaultMaxTokens)
    /\ backendRequest.temperature = RequestedTemperature

(***************************************************************************)
(* C24: system instruction placement.  The system instruction of a         *)
(* request, a string or a Content flattened to a string, is in the system  *)
(* slot of the backend request (the system field for Bedrock, a message    *)
(* of role system for OpenAI) and in no user or assistant message, and no  *)
(* message of the Bedrock request has a role other than user or assistant. *)
(***************************************************************************)
\* the text of a message of the backend request
MessageText(message) ==
  IF backend = "bedrock"
  THEN IF message.isString THEN message.text
       ELSE JoinLines([b \in 1..Len(message.blocks) |->
                         message.blocks[b].text])
  ELSE message.content

InSystemSlot(text) ==
  IF backend = "bedrock" THEN IsPrefix(text, backendRequest.system)
  ELSE \E m \in 1..Len(sent) :
         sent[m].role = "system" /\ sent[m].content = text

C24_SystemInstructionPlacement ==
  RequestBuilt =>
    /\ RequestedSystem # EmptyStr => InSystemSlot(RequestedSystem)
    /\ \A m \in 1..Len(sent) :
         sent[m].role \in {"user", "assistant"}
           => MessageText(sent[m]) # RequestedSystem
    /\ backend = "bedrock"
         => \A m \in 1..Len(sent) : sent[m].role \in {"user", "assistant"}

(***************************************************************************)
(* C25: tool declaration translation.  Every named function declaration    *)
(* of every tool of the request yields exactly one tool declaration of the *)
(* backend request, with the same name, and every schema sent has a type   *)
(* and a properties map, also when the declaration has no parameters.      *)
(***************************************************************************)
\* the names of the named declarations of the request, in order
DeclaredNames ==
  LET named ==
        SelectSeq(
          Flatten([t \in 1..Len(RequestedTools) |->
                     IF RequestedTools[t].isFunctionTool
                     THEN RequestedTools[t].functionDeclarations ELSE << >>]),
          LAMBDA d : d.name # EmptyStr)
  IN [d \in 1..Len(named) |-> named[d].name]

\* the names of the tools of the backend request that named declarations
\* gave rise to
SentNames ==
  LET named == SelectSeq(backendRequest.tools,
                         LAMBDA t : t.name # <<"unknown_function">>)
  IN [t \in 1..Len(named) |-> named[t].name]

C25_ToolDeclarations ==
  RequestBuilt =>
    /\ SentNames = DeclaredNames
    /\ \A t \in 1..Len(backendRequest.tools) :
         /\ backendRequest.tools[t].schema.type # ""
         /\ backendRequest.tools[t].schema.hasProperties

(***************************************************************************)
(* C26: JSON-mode request translation.  Whenever JSON mode is set on a     *)
(* request, the system slot of the backend request built by                *)
(* generateContent and by generateContentStream is the caller's system     *)
(* instruction (if any) unchanged, then the JSON-only instruction, then    *)
(* the text of the response schema when there is one.                      *)
(***************************************************************************)
\* the JSON-only instruction and the schema text that follows it
JsonSuffix ==
  IF request.responseSchema = NoArgs THEN JsonInstruction
  ELSE JsonInstruction \o SchemaInstruction(request.responseSchema)

C26_JsonModeAppended ==
  (RequestBuilt /\ request.responseMimeType = "application/json") =>
    /\ IsPrefix(RequestedSystem, backendRequest.system)
    /\ IsSuffix(JsonSuffix, backendRequest.system)
    /\ Len(backendRequest.system) >= Len(RequestedSystem) + Len(JsonSuffix)

(***************************************************************************)
(* C27: the request translator is a pure function: building the backend    *)
(* request in generateContent, generateContentStream or countTokens        *)
(* leaves the caller's request as it was, the parameter schema of each     *)
(* tool declaration included.                                              *)
(***************************************************************************)
C27_RequestUnchanged == [][pc = "build" => request' = request]_vars

(***************************************************************************)
(* C31: every fragment of a call, and every response of generateContent,   *)
(* whose finishReason is STOP has a non-empty parts list whenever at least *)
(* one text or tool-call event was received from the backend during the    *)
(* call.                                                                   *)
(***************************************************************************)
\* a raw event that carries text or belongs to a tool call
CarriesContent(event) ==
  IF backend = "bedrock"
  THEN event.type \in {"content_block_delta", "content_block_start"}
  ELSE event.kind = "data"
         /\ (event.content # EmptyStr \/ event.tool_calls # << >>)

ContentReceived ==
  \E e \in 1..Len(consumed) : CarriesContent(consumed[e])

C31_StopHasParts ==
  /\ ContentReceived =>
       \A f \in 1..Len(out) :
         out[f].finishReason = "STOP" => out[f].parts # << >>
  /\ (op = "generate" /\ pc = "done" /\ result.finishReason = "STOP")
       => result.parts # << >>

(***************************************************************************)
(* C32: countTokens completes without failing and without a transport      *)
(* request, and returns ceil(C / 4) where C is the number of characters of *)
(* the text parts of the messages of the request; the result is greater    *)
(* than 0 whenever some text part is non-empty.                            *)
(***************************************************************************)
\* the characters of the text parts of the user and model messages
TextChars ==
  LET textParts ==
        SelectSeq(
          Flatten([c \in 1..Len(contents) |->
                     IF contents[c].role \in {"user", "model"}
                     THEN contents[c].parts ELSE << >>]),
          IsText)
  IN Sum([p \in 1..Len(textParts) |-> Len(textParts[p].text)])

C32_CountTokens ==
  (op = "countTokens" /\ pc # "build") =>
    /\ pc = "done"
    /\ fetches = 0
    /\ result.status = "ok"
    /\ 4 * result.totalTokens >= TextChars
    /\ 4 * result.totalTokens < TextChars + 4
    /\ TextChars > 0 => result.totalTokens > 0

(***************************************************************************)
(* C35: streaming and non-streaming request building agree.  The backend   *)
(* request generateContentStream builds is the one generateContent builds  *)
(* for the same request, but for the stream flag: the same tools, max      *)
(* tokens, temperature and system slot, whichever location of the request  *)
(* carries the option (the messages are built by the same translation).    *)
(***************************************************************************)
\* what generateContent builds for the request of this call
NonStreamingRequest ==
  IF backend = "bedrock" THEN BedrockRequestOf(request)
  ELSE OpenAIRequestOf(request, FALSE)

C35_StreamRequestAgrees ==
  (pc = "built" /\ op = "stream") =>
    [backendRequest EXCEPT !.stream = FALSE] = NonStreamingRequest

(***************************************************************************)
(* C36: no part is lost in request translation.  Every non-empty text      *)
(* part, every function call part and every function response part of a   *)
(* user or model message appears in the backend request, whatever mix of   *)
(* part kinds the message holds.                                           *)
(***************************************************************************)
\* the parts of the user and model messages of the conversation
MessageParts ==
  Flatten([c \in 1..Len(contents) |->
             IF contents[c].role \in {"user", "model"}
             THEN contents[c].parts ELSE << >>])

CountKind(kinds, kind) == Len(SelectSeq(kinds, LAMBDA k : k = kind))

IsInfix(small, big) ==
  \E start \in 1..(Len(big) - Len(small) + 1) :
    SubSeq(big, start, start + Len(small) - 1) = small

C36_NoPartLost ==
  pc = "translated" =>
    /\ CountKind(SentKinds, "functionCall")
         = Len(SelectSeq(MessageParts, IsFunctionCall))
    /\ CountKind(SentKinds, "functionResponse")
         = Len(SelectSeq(MessageParts, IsFunctionResponse))
    /\ \A p \in 1..Len(MessageParts) :
         (IsText(MessageParts[p]) /\ MessageParts[p].text # EmptyStr)
           => \E m \in 1..Len(sent) :
                IsInfix(MessageParts[p].text, MessageText(sent[m]))

(***************************************************************************)
(* C39: model resolution order of createContentGeneratorConfig.  The       *)
(* configured model is the ANTHROPIC_MODEL of the environment when it is   *)
(* set and non-empty, otherwise the model passed by the caller when it is  *)
(* non-empty, otherwise the default Bedrock model; the config returned     *)
(* carries the authType passed in unchanged.                               *)
(***************************************************************************)
IsGiven(string) == string # Undefined /\ string # ""

C38_EveryRecordProcessed ==
  (mode = "bytes" /\ pc = "done") =>
    \/ consumed = Wire(backend, scenario)
    \/ /\ consumed # << >>
       /\ IsPrefix(consumed, Wire(backend, scenario))
       /\ consumed[Len(consumed)].finish_reason # Null

(***************************************************************************)
(* C33: pull-based streaming.  Once generateContentStream has returned its *)
(* generator, a raw backend event is read only while a pull of the caller  *)
(* is outstanding: none is read between two pulls, nor after the pull has  *)
(* been answered with a fragment.  (In a scripted call every read takes    *)
(* events out of script.)                                                  *)
(***************************************************************************)
C33_ReadsOnlyWhilePulled == [][script' # script => pulls > Len(out)]_vars

\* the second pull has been answered and the transport holds more events
C33_Witness ==
  /\ pc = "streaming"
  /\ pulls = 2
  /\ Len(out) = 2
  /\ Len(consumed) >= 2
  /\ script # << >>

C34_CallsIndependent ==
  (parked # NoCall /\ pc = "done" /\ parked.pc = "done") =>
    out = parked.out

\* both calls have returned, with the same two or more fragments
C34_Witness ==
  /\ parked # NoCall
  /\ pc = "done"
  /\ parked.pc = "done"
  /\ Len(out) >= 2
  /\ out = parked.out
====
